---- MODULE Spec2Model ----
(***************************************************************************)
(* A model of libwild's ELF output writer (src/libwild/src/elf_writer.rs). *)
(*                                                                         *)
(* The writer is modelled component by component.  Every component has its *)
(* own specification over its own variables; the variables of the other    *)
(* components are held at their idle value.                                *)
(*                                                                         *)
(*   SpecSplit   the section / part / group splitters of the output buffer *)
(*   SpecTable   the per-group TableWriter: process_resolution and         *)
(*               validate_empty                                            *)
(*   SpecOutput  Output::new / set_size / write with the background file   *)
(*               provisioner (SpecOutputFair adds the scheduler fairness)  *)
(*   SpecEmit    SizedOutput::write: the parallel group fan-out, the       *)
(*               .eh_frame_hdr sort and the build-ID note, in two runs     *)
(*               whose group writers succeed                               *)
(*   SpecFanOut  one run of SizedOutput::write whose group writers can     *)
(*               fail                                                      *)
(*   SpecObject  ObjectLayout::write_file over the sections of one input   *)
(*               object: the relocation loop of the loaded sections and    *)
(*               the .eh_frame rewriter                                    *)
(*   SpecGnuHash write_gnu_hash_tables of the epilogue                     *)
(*   SpecDynamic write_epilogue_dynamic_entries and the static table of    *)
(*               .dynamic entry writers                                    *)
(*                                                                         *)
(* A mutable byte slice (&mut [u8]) is a record [start, len]: the range of *)
(* the output buffer it borrows.                                           *)
(***************************************************************************)
EXTENDS Integers, Sequences, FiniteSets, TLC

VARIABLES
    \* ---- SpecSplit
    layout,             \* the Layout handed to the writer (read-only)
    split_pc,           \* position in write_file_contents' splitting prefix
    section_buffers,    \* OutputSectionMap<&mut [u8]>
    writable_buckets,   \* OutputSectionPartMap<&mut [u8]>
    groups_and_buffers, \* Vec<(&GroupLayout, OutputSectionPartMap<&mut [u8]>)>
    \* ---- SpecOutput
    args,               \* the Args that Output::new and write read
    file_write_mode,    \* Output::file_write_mode
    creator,            \* Output::creator (FileCreator)
    files,              \* what the output path and the sidecar path name
    fs_log,             \* the operations done on the output path, in order
    main_pc,            \* position of the main thread
    set_sizes,          \* the sizes passed to set_size, in call order
    bg,                 \* the task spawned by set_size
    del_pc,             \* the task that deletes the renamed old output
    sized_output,       \* the SizedOutput held by Output::write
    steps,              \* the steps Output::write has performed, in order
    \* ---- SpecTable
    resolution,         \* the Resolution handed to process_resolution
    mem_sizes,          \* the sizes of the parts the TableWriter was built on
    table_writer,       \* the TableWriter
    table_pc,           \* position in verify_resolution_allocation
    table_result,       \* the Result of the last TableWriter call
    \* ---- SpecEmit
    emit_args,          \* the Args that SizedOutput::new and write read
    emit_layout,        \* the Layout that is written
    mmap_works,         \* whether the output file can be mapped
    emit_run,           \* 1 in the first run of the linker, 2 in the second
    emit_pc,            \* position in SizedOutput::write
    out,                \* SizedOutput::out, the output buffer
    file_contents,      \* the bytes of the file the output path names
    emit_groups,        \* groups_and_buffers of write_file_contents
    group_pc,           \* per group, the next part its closure writes
    failed_groups,      \* the groups whose closure returned an error
    writers,            \* per byte of the buffer, the groups that wrote it
    outputs,            \* the file each finished run left behind
    \* ---- SpecObject
    object,             \* the ObjectLayout that is written (read-only)
    object_pc,          \* position in ObjectLayout::write_file
    frame,              \* the locals of the loop that is running
    object_out,         \* the output bytes of the object's sections
    object_tw,          \* the TableWriter of the object's group
    object_log,         \* what was done with each relocation, in order
    \* ---- SpecGnuHash
    epilogue,           \* the EpilogueLayout and the size of its .gnu.hash part
    gnu_hash_pc,        \* position in write_gnu_hash_tables
    gnu_hash,           \* the tables in the buffer and the locals of the loop
    \* ---- SpecDynamic
    dynamic_inputs,     \* the Layout write_epilogue_dynamic_entries reads
    dynamic_pc,         \* position in write_epilogue_dynamic_entries
    dynamic_out         \* the .dynamic and .dynstr cursors and what they wrote

split_vars == <<layout, split_pc, section_buffers, writable_buckets, groups_and_buffers>>
output_vars == <<args, file_write_mode, creator, files, fs_log, main_pc, set_sizes, bg,
                 del_pc, sized_output, steps>>
table_vars == <<resolution, mem_sizes, table_writer, table_pc, table_result>>
emit_vars == <<emit_args, emit_layout, mmap_works, emit_run, emit_pc, out, file_contents,
               emit_groups, group_pc, failed_groups, writers, outputs>>

object_vars == <<object, object_pc, frame, object_out, object_tw, object_log>>
hash_vars == <<epilogue, gnu_hash_pc, gnu_hash>>
dynamic_vars == <<dynamic_inputs, dynamic_pc, dynamic_out>>

other_than_split == <<output_vars, table_vars, emit_vars, object_vars,
    hash_vars, dynamic_vars>>
other_than_output == <<split_vars, table_vars, emit_vars, object_vars,
    hash_vars, dynamic_vars>>
other_than_table == <<split_vars, output_vars, emit_vars, object_vars,
    hash_vars, dynamic_vars>>
other_than_emit == <<split_vars, output_vars, table_vars, object_vars,
    hash_vars, dynamic_vars>>
other_than_object == <<split_vars, output_vars, table_vars, emit_vars,
    hash_vars, dynamic_vars>>
other_than_hash == <<split_vars, output_vars, table_vars, emit_vars, object_vars,
    dynamic_vars>>
other_than_dynamic == <<split_vars, output_vars, table_vars, emit_vars, object_vars,
    hash_vars>>

----------------------------------------------------------------------------
(* Bounds of the model. *)

\* Largest file_size one group contributes to one part.
MaxPartSize == 1
\* Largest file_offset of a section.
MaxOffset == 4
\* How many times the caller may call Output::set_size.
MaxSetSizeCalls == 2
\* Largest size passed to Output::set_size.
MaxFileSize == 2
\* More entries than one resolution consumes from any one part.
MaxEntries == 6
\* Largest padding between two sections of an emitted layout.
MaxPadding == 1
\* The number of values of a build-ID hash.
HashModulus == 7

----------------------------------------------------------------------------
(* Slices. *)

Slice(start, len) == [start |-> start, len |-> len]

\* Default::default() of &mut [u8]: the empty slice.
EmptySlice == Slice(0, 0)

\* crate::slice::slice_take_prefix_mut(&mut s, n): the first n bytes are
\* returned, the slice keeps the rest.  It aborts when n > s.len().
CanTake(s, n) == n <= s.len
TakenPrefix(s, n) == Slice(s.start, n)
AfterTake(s, n) == Slice(s.start + n, s.len - n)

\* The bytes of the buffer a slice borrows.
Bytes(s) == s.start .. (s.start + s.len - 1)

----------------------------------------------------------------------------
(* The layout. *)

\* OutputSectionId, in id order (the order of section_layouts.for_each).
SectionOrder == <<"s1", "s2", "s3">>
SectionIds == {"s1", "s2", "s3"}

\* Parts (section, alignment) in output order, and the section of each.
PartOrder == <<"p1", "p2", "p3", "p4">>
PartIds == {"p1", "p2", "p3", "p4"}
PartSection == [p \in PartIds |->
                  CASE p = "p1" -> "s1" [] p = "p2" -> "s1"
                    [] p = "p3" -> "s2" [] OTHER -> "s3"]

\* layout.group_layouts, in order.
GroupOrder == <<"g1", "g2">>
GroupIds == {"g1", "g2"}

RECURSIVE SumOver(_, _)
SumOver(f, S) ==
    IF S = {} THEN 0
    ELSE LET x == CHOOSE y \in S : TRUE IN f[x] + SumOver(f, S \ {x})

\* The parts a group contributes to: both groups write into the first part,
\* every other part has the input of one group only.
GroupWritesPart(g, p) == p = "p1" \/ (g = "g2" /\ p = "p2") \/ (g = "g1" /\ p \in {"p3", "p4"})

GroupFileSizes ==
    {fs \in [GroupIds -> [PartIds -> 0..MaxPartSize]] :
        \A g \in GroupIds, p \in PartIds : ~GroupWritesPart(g, p) => fs[g][p] = 0}

\* The size of a part is the sum of what the groups put into it, and the
\* size of a section is the sum of its parts.
PartFileSize(fs, p) == SumOver([g \in GroupIds |-> fs[g][p]], GroupIds)
SectionFileSize(fs, s) ==
    SumOver([p \in PartIds |-> IF PartSection[p] = s THEN PartFileSize(fs, p) ELSE 0],
            PartIds)

buffer_len == MaxOffset + 2

MakeLayout(fs, offs) ==
    [ section_layouts |->
          [s \in SectionIds |-> [file_offset |-> offs[s],
                                  file_size |-> SectionFileSize(fs, s)]],
      section_part_layouts |->
          [p \in PartIds |-> [file_size |-> PartFileSize(fs, p)]],
      group_layouts |->
          [g \in GroupIds |-> [file_sizes |-> fs[g]]] ]

Layouts ==
    {MakeLayout(fs, offs) : fs \in GroupFileSizes, offs \in [SectionIds -> 0..MaxOffset]}

----------------------------------------------------------------------------
(* split_output_into_sections *)

SectionAllocation(l, id) ==
    [id |-> id,
     offset |-> l.section_layouts[id].file_offset,
     size |-> l.section_layouts[id].file_size]

\* The key of sort_by_key: (offset, offset + size), compared as a pair.
KeyLess(a, b) ==
    \/ a.offset < b.offset
    \/ a.offset = b.offset /\ a.offset + a.size < b.offset + b.size

\* sort_by_key is stable: an element goes before the first one that is
\* strictly greater.
RECURSIVE InsertSorted(_, _)
InsertSorted(seq, a) ==
    IF seq = <<>> THEN <<a>>
    ELSE IF KeyLess(a, Head(seq)) THEN <<a>> \o seq
    ELSE <<Head(seq)>> \o InsertSorted(Tail(seq), a)

RECURSIVE SortAllocations(_)
SortAllocations(seq) ==
    IF seq = <<>> THEN <<>>
    ELSE InsertSorted(SortAllocations(SubSeq(seq, 1, Len(seq) - 1)), seq[Len(seq)])

section_allocations(l) ==
    SortAllocations([i \in 1..Len(SectionOrder) |-> SectionAllocation(l, SectionOrder[i])])

Panicked == [panic |-> TRUE]

\* The loop over the sorted allocations: data is what is left of the buffer,
\* offset the file offset it starts at.
RECURSIVE SplitLoop(_, _, _, _)
SplitLoop(allocs, data, offset, section_data) ==
    IF allocs = <<>> THEN [panic |-> FALSE, section_data |-> section_data]
    ELSE LET a == Head(allocs) IN
         IF a.offset < offset THEN Panicked      \* checked_sub fails
         ELSE LET padding == a.offset - offset IN
              IF ~CanTake(data, padding) THEN Panicked
              ELSE LET d == AfterTake(data, padding) IN
                   IF ~CanTake(d, a.size) THEN Panicked
                   ELSE SplitLoop(Tail(allocs), AfterTake(d, a.size), a.offset + a.size,
                                  [section_data EXCEPT ![a.id] = TakenPrefix(d, a.size)])

\* The same loop with the padding between two sections not skipped.
RECURSIVE SplitLoopNoPadding(_, _, _, _)
SplitLoopNoPadding(allocs, data, offset, section_data) ==
    IF allocs = <<>> THEN [panic |-> FALSE, section_data |-> section_data]
    ELSE LET a == Head(allocs) IN
         IF a.offset < offset THEN Panicked
         ELSE IF ~CanTake(data, a.size) THEN Panicked
         ELSE SplitLoopNoPadding(Tail(allocs), AfterTake(data, a.size), a.offset + a.size,
                                 [section_data EXCEPT ![a.id] = TakenPrefix(data, a.size)])

split_output_into_sections_no_padding(l, len) ==
    SplitLoopNoPadding(section_allocations(l), Slice(0, len), 0,
                       [s \in SectionIds |-> EmptySlice])

split_output_into_sections(l, len) ==
    SplitLoop(section_allocations(l), Slice(0, len), 0, [s \in SectionIds |-> EmptySlice])

----------------------------------------------------------------------------
(* split_buffers_by_alignment *)

\* output_order_map over section_part_layouts: every part, in output order,
\* peels its file_size off the front of its section's buffer.
RECURSIVE AlignmentLoop(_, _, _, _)
AlignmentLoop(l, parts, sect, buckets) ==
    IF parts = <<>> THEN [panic |-> FALSE, section_buffers |-> sect, buckets |-> buckets]
    ELSE LET p == Head(parts)
             s == PartSection[p]
             n == l.section_part_layouts[p].file_size
         IN IF ~CanTake(sect[s], n) THEN Panicked
            ELSE AlignmentLoop(l, Tail(parts),
                               [sect EXCEPT ![s] = AfterTake(sect[s], n)],
                               [buckets EXCEPT ![p] = TakenPrefix(sect[s], n)])

split_buffers_by_alignment(sect, l) ==
    AlignmentLoop(l, PartOrder, sect, [p \in PartIds |-> EmptySlice])

----------------------------------------------------------------------------
(* split_output_by_group *)

\* OutputSectionPartMap::take_mut(&mut self, sizes): for every part, the
\* prefix of sizes[part] bytes is split off and returned.
CanTakeMut(buckets, sizes) == \A p \in PartIds : CanTake(buckets[p], sizes[p])
TakeMutTaken(buckets, sizes) == [p \in PartIds |-> TakenPrefix(buckets[p], sizes[p])]
TakeMutRest(buckets, sizes) == [p \in PartIds |-> AfterTake(buckets[p], sizes[p])]

RECURSIVE GroupLoop(_, _, _, _)
GroupLoop(l, groups, buckets, taken) ==
    IF groups = <<>> THEN [panic |-> FALSE, buckets |-> buckets, groups |-> taken]
    ELSE LET g == Head(groups)
             sizes == l.group_layouts[g].file_sizes
         IN IF ~CanTakeMut(buckets, sizes) THEN Panicked
            ELSE GroupLoop(l, Tail(groups), TakeMutRest(buckets, sizes),
                           Append(taken, [group |-> g, buffers |-> TakeMutTaken(buckets, sizes)]))

\* The same loop with every group taking from the untouched part map.
RECURSIVE GroupLoopNoAdvance(_, _, _, _)
GroupLoopNoAdvance(l, groups, buckets, taken) ==
    IF groups = <<>> THEN [panic |-> FALSE, buckets |-> buckets, groups |-> taken]
    ELSE LET g == Head(groups)
             sizes == l.group_layouts[g].file_sizes
         IN IF ~CanTakeMut(buckets, sizes) THEN Panicked
            ELSE GroupLoopNoAdvance(l, Tail(groups), buckets,
                           Append(taken, [group |-> g, buffers |-> TakeMutTaken(buckets, sizes)]))

split_output_by_group_no_advance(l, buckets) == GroupLoopNoAdvance(l, GroupOrder, buckets, <<>>)

split_output_by_group(l, buckets) == GroupLoop(l, GroupOrder, buckets, <<>>)

----------------------------------------------------------------------------
(* SpecSplit: the splitting prefix of write_file_contents. *)

SplitIdle ==
    /\ layout = [none |-> TRUE]
    /\ split_pc = "idle"
    /\ section_buffers = <<>>
    /\ writable_buckets = <<>>
    /\ groups_and_buffers = <<>>

SplitStart ==
    /\ layout \in Layouts
    /\ split_pc = "start"
    /\ section_buffers = <<>>
    /\ writable_buckets = <<>>
    /\ groups_and_buffers = <<>>

SplitIntoSections ==
    /\ split_pc = "start"
    /\ LET r == split_output_into_sections(layout, buffer_len) IN
         IF r.panic
         THEN /\ split_pc' = "panic"
              /\ UNCHANGED section_buffers
         ELSE /\ split_pc' = "sections"
              /\ section_buffers' = r.section_data
    /\ UNCHANGED <<layout, writable_buckets, groups_and_buffers>>
    /\ UNCHANGED other_than_split

SplitByAlignment ==
    /\ split_pc = "sections"
    /\ LET r == split_buffers_by_alignment(section_buffers, layout) IN
         IF r.panic
         THEN /\ split_pc' = "panic"
              /\ UNCHANGED <<section_buffers, writable_buckets>>
         ELSE /\ split_pc' = "parts"
              /\ section_buffers' = r.section_buffers
              /\ writable_buckets' = r.buckets
    /\ UNCHANGED <<layout, groups_and_buffers>>
    /\ UNCHANGED other_than_split

SplitByGroup ==
    /\ split_pc = "parts"
    /\ LET r == split_output_by_group(layout, writable_buckets) IN
         IF r.panic
         THEN /\ split_pc' = "panic"
              /\ UNCHANGED <<writable_buckets, groups_and_buffers>>
         ELSE /\ split_pc' = "groups"
              /\ writable_buckets' = r.buckets
              /\ groups_and_buffers' = r.groups
    /\ UNCHANGED <<layout, section_buffers>>
    /\ UNCHANGED other_than_split

----------------------------------------------------------------------------
(* Output: new, set_size, write, and the background file provisioner. *)

\* Option::None of a record; an optional number is <<>> or <<n>>, an
\* optional name is "None" or the name.
None == [none |-> TRUE]

FileWriteModes == {"UnlinkAndReplace", "UpdateInPlace"}

\* What the output path names when the linker starts.  files.found keeps
\* it, files.path and files.sidecar are what the two paths name now.
PathKinds == {"absent", "regular", "device"}

\* default_file_write_mode(path): a character device, block device, socket
\* or FIFO is updated in place, everything else is replaced.
default_file_write_mode(kind) ==
    IF kind = "absent" THEN "UnlinkAndReplace"          \* metadata() fails
    ELSE IF kind = "device" THEN "UpdateInPlace"
    ELSE "UnlinkAndReplace"

ArgsSet ==
    [file_write_mode : FileWriteModes \cup {"None"},
     threaded : BOOLEAN,               \* num_threads > 1
     write_layout : BOOLEAN,
     validate_output : BOOLEAN,
     should_write_eh_frame_hdr : BOOLEAN]

OutputIdle ==
    /\ args = None
    /\ file_write_mode = "None"
    /\ creator = None
    /\ files = None
    /\ fs_log = <<>>
    /\ main_pc = "idle"
    /\ set_sizes = <<>>
    /\ bg = None
    /\ del_pc = "idle"
    /\ sized_output = None
    /\ steps = <<>>

\* Output::new(args), in the file system the linker finds.
OutputNew ==
    /\ args \in ArgsSet
    /\ \E kind \in PathKinds :
         /\ files = [path |-> kind, sidecar |-> "absent", found |-> kind]
         /\ file_write_mode =
                IF args.file_write_mode # "None" THEN args.file_write_mode
                ELSE default_file_write_mode(kind)
    /\ creator = IF args.threaded
                 THEN [kind |-> "Background", sized_output_sender |-> "Some", channel |-> <<>>]
                 ELSE [kind |-> "Regular", file_size |-> <<>>]
    /\ fs_log = <<>>
    /\ main_pc = "ready"
    /\ set_sizes = <<>>
    /\ bg = [pc |-> "none", size |-> 0, sender |-> "none", result |-> None]
    /\ del_pc = "none"
    /\ sized_output = None
    /\ steps = <<>>

\* std::fs::remove_file(path): the path stops naming anything; it fails when
\* the path names nothing.
RemoveFile(f) == [f EXCEPT !.path = "absent"]
RemoveLog(f, log) == IF f.path = "absent" THEN log ELSE Append(log, "unlink")

\* OpenOptions .read .write .create(true) .truncate(mode = UnlinkAndReplace)
\* .open(path): a missing file is created, an existing one is truncated when
\* asked to.
OpenFile(f) == IF f.path = "absent" THEN [f EXCEPT !.path = "new"] ELSE f
OpenLog(f, mode, log) ==
    IF f.path = "absent" THEN Append(log, "create")
    ELSE IF mode = "UnlinkAndReplace" THEN Append(log, "truncate")
    ELSE Append(log, "open")

\* OutputBuffer::new: the file is mapped when set_len and mmap succeed, else
\* a heap buffer backs the output.  set_len fails on a device.
OutputBuffers(f) == IF f.path = "device" THEN {"InMemory"} ELSE {"Mmap", "InMemory"}

\* SizedOutput::new(path, file_size, write_mode, _): the results it can have.
\* Opening can fail; a failed open leaves the file system as it was.
SizedOutputNew(f, log, size, mode) ==
    {[ok |-> FALSE, fs |-> f, fs_log |-> log]}
    \cup {[ok |-> TRUE, fs |-> OpenFile(f), fs_log |-> OpenLog(f, mode, log),
           sized_output |-> [file_size |-> size, out |-> b]] : b \in OutputBuffers(f)}

\* Output::set_size(size).
SetSize ==
    /\ main_pc = "ready"
    /\ Len(set_sizes) < MaxSetSizeCalls
    /\ \E size \in 1..MaxFileSize :
         /\ set_sizes' = Append(set_sizes, size)
         /\ IF creator.kind = "Background"
            THEN IF creator.sized_output_sender = "Some"
                 THEN \* sender.take(), rayon::spawn(move || ...)
                      /\ creator' = [creator EXCEPT !.sized_output_sender = "None"]
                      /\ bg' = [pc |-> IF file_write_mode = "UnlinkAndReplace"
                                       THEN "rename" ELSE "create",
                                size |-> size, sender |-> "held", result |-> None]
                      /\ UNCHANGED main_pc
                 ELSE \* .expect("set_size must only be called once")
                      /\ main_pc' = "panicked"
                      /\ UNCHANGED <<creator, bg>>
            ELSE /\ creator' = [creator EXCEPT !.file_size = <<size>>]
                 /\ UNCHANGED <<main_pc, bg>>
    /\ UNCHANGED <<args, file_write_mode, files, fs_log, del_pc, sized_output, steps>>
    /\ UNCHANGED other_than_output

\* The background task with the deleting task spawned whatever the rename
\* returned.
BgRenameAlwaysDeletes ==
    /\ bg.pc = "rename"
    /\ \E rename_ok \in (IF files.path = "absent" THEN {FALSE} ELSE {TRUE, FALSE}) :
         IF rename_ok
         THEN /\ files' = [files EXCEPT !.path = "absent", !.sidecar = files.path]
              /\ fs_log' = Append(fs_log, "rename")
         ELSE UNCHANGED <<files, fs_log>>
    /\ del_pc' = "spawned"
    /\ bg' = [bg EXCEPT !.pc = "create"]
    /\ UNCHANGED <<args, file_write_mode, creator, main_pc, set_sizes, sized_output, steps>>
    /\ UNCHANGED other_than_output

\* The background task: std::fs::rename(&path, &renamed_old_file), and the
\* spawn of the deleting task when the rename succeeded.
BgRename ==
    /\ bg.pc = "rename"
    /\ \E rename_ok \in (IF files.path = "absent" THEN {FALSE} ELSE {TRUE, FALSE}) :
         IF rename_ok
         THEN /\ files' = [files EXCEPT !.path = "absent", !.sidecar = files.path]
              /\ fs_log' = Append(fs_log, "rename")
              /\ del_pc' = "spawned"
         ELSE UNCHANGED <<files, fs_log, del_pc>>
    /\ bg' = [bg EXCEPT !.pc = "create"]
    /\ UNCHANGED <<args, file_write_mode, creator, main_pc, set_sizes, sized_output, steps>>
    /\ UNCHANGED other_than_output

\* The deleting task: let _ = std::fs::remove_file(renamed_old_file).
DeleteRenamed ==
    /\ del_pc = "spawned"
    /\ del_pc' = "done"
    /\ files' = [files EXCEPT !.sidecar = "absent"]
    /\ UNCHANGED <<args, file_write_mode, creator, fs_log, main_pc, set_sizes, bg,
                   sized_output, steps>>
    /\ UNCHANGED other_than_output

\* The background task: SizedOutput::new(path, size, write_mode, ..).
BgCreate ==
    /\ bg.pc = "create"
    /\ \E r \in SizedOutputNew(files, fs_log, bg.size, file_write_mode) :
         /\ files' = r.fs
         /\ fs_log' = r.fs_log
         /\ bg' = [bg EXCEPT !.pc = "send",
                             !.result = IF r.ok THEN [ok |-> TRUE, sized_output |-> r.sized_output]
                                        ELSE [ok |-> FALSE]]
    /\ UNCHANGED <<args, file_write_mode, creator, main_pc, set_sizes, del_pc,
                   sized_output, steps>>
    /\ UNCHANGED other_than_output

\* mpsc::Sender::send: the message is queued.
ChannelSendDropped(channel, msg) == channel
ChannelSend(channel, msg) == Append(channel, msg)

\* The background task: let _ = sender.send(sized_output); the closure ends
\* and drops the sender.
BgSend ==
    /\ bg.pc = "send"
    /\ creator' = [creator EXCEPT !.channel = ChannelSend(creator.channel, bg.result)]
    /\ bg' = [bg EXCEPT !.pc = "done", !.sender = "dropped"]
    /\ UNCHANGED <<args, file_write_mode, files, fs_log, main_pc, set_sizes, del_pc,
                   sized_output, steps>>
    /\ UNCHANGED other_than_output

\* The order of the steps of Output::write once it holds the SizedOutput:
\* SizedOutput::write (contents, validation, sort, build ID), flush,
\* trace.close, drop.
StepOrderFlushFirst ==
    <<"contents", "validate", "sort_eh_frame_hdr", "flush", "build_id",
      "trace_close", "unmap", "return">>
StepOrder ==
    <<"contents", "validate", "sort_eh_frame_hdr", "build_id", "flush",
      "trace_close", "unmap", "return">>

StepAfter(step) ==
    LET i == CHOOSE k \in 1..Len(StepOrder) : StepOrder[k] = step
    IN StepOrder[i + 1]

\* A step of write: it is logged; when it fails, `?` leaves write, which
\* drops the SizedOutput on its way out.
WriteStep(step, can_fail) ==
    /\ main_pc = step
    /\ \E ok \in (IF can_fail THEN {TRUE, FALSE} ELSE {TRUE}) :
         /\ steps' = Append(steps, step)
         /\ IF ok
            THEN /\ main_pc' = StepAfter(step)
                 /\ UNCHANGED sized_output
            ELSE /\ main_pc' = "returned_err"
                 /\ sized_output' = None
    /\ UNCHANGED <<args, file_write_mode, creator, files, fs_log, set_sizes, bg, del_pc>>
    /\ UNCHANGED other_than_output

\* A step that the arguments switch off.
SkipStep(step) ==
    /\ main_pc = step
    /\ main_pc' = StepAfter(step)
    /\ UNCHANGED <<args, file_write_mode, creator, files, fs_log, set_sizes, bg, del_pc,
                   sized_output, steps>>
    /\ UNCHANGED other_than_output

\* Output::write, up to the point where it holds or waits for the
\* SizedOutput.  write_layout writes the <output>.layout side file.
WriteStart ==
    /\ main_pc = "ready"
    /\ \E layout_ok \in (IF args.write_layout THEN {TRUE, FALSE} ELSE {TRUE}) :
         IF ~layout_ok
         THEN /\ main_pc' = "returned_err"
              /\ UNCHANGED <<files, fs_log, sized_output>>
         ELSE IF creator.kind = "Background"
         THEN /\ main_pc' = IF creator.sized_output_sender = "None"
                            THEN "waiting"
                            ELSE "panicked"   \* assert!: set_size was never called
              /\ UNCHANGED <<files, fs_log, sized_output>>
         ELSE \* delete_old_output(&self.path), then file_size.context(..)?,
              \* then create_file_non_lazily
              LET f == RemoveFile(files)
                  log == RemoveLog(files, fs_log)
              IN IF creator.file_size = <<>>
                 THEN /\ main_pc' = "returned_err"
                      /\ files' = f
                      /\ fs_log' = log
                      /\ UNCHANGED sized_output
                 ELSE \E r \in SizedOutputNew(f, log, creator.file_size[1], file_write_mode) :
                      /\ files' = r.fs
                      /\ fs_log' = r.fs_log
                      /\ IF r.ok
                         THEN /\ sized_output' = r.sized_output
                              /\ main_pc' = "contents"
                         ELSE /\ main_pc' = "returned_err"
                              /\ UNCHANGED sized_output
    /\ UNCHANGED <<args, file_write_mode, creator, set_sizes, bg, del_pc, steps>>
    /\ UNCHANGED other_than_output

\* wait_for_sized_output: recv() returns the queued message; with nothing
\* queued it fails once the sender is gone, and blocks while it lives.
WriteReceive ==
    /\ main_pc = "waiting"
    /\ IF creator.channel # <<>>
       THEN LET msg == Head(creator.channel) IN
            /\ creator' = [creator EXCEPT !.channel = Tail(creator.channel)]
            /\ IF msg.ok
               THEN /\ sized_output' = msg.sized_output
                    /\ main_pc' = "contents"
               ELSE /\ main_pc' = "returned_err"
                    /\ UNCHANGED sized_output
       ELSE /\ bg.sender = "dropped"
            /\ main_pc' = "returned_err"       \* RecvError
            /\ UNCHANGED <<creator, sized_output>>
    /\ UNCHANGED <<args, file_write_mode, files, fs_log, set_sizes, bg, del_pc, steps>>
    /\ UNCHANGED other_than_output

WriteContents == main_pc = "contents" /\ WriteStep("contents", TRUE)
WriteValidate ==
    IF args # None /\ args.validate_output
    THEN WriteStep("validate", TRUE) ELSE SkipStep("validate")
WriteSortEhFrameHdr ==
    IF args # None /\ args.should_write_eh_frame_hdr
    THEN WriteStep("sort_eh_frame_hdr", FALSE) ELSE SkipStep("sort_eh_frame_hdr")
WriteBuildId == main_pc = "build_id" /\ WriteStep("build_id", TRUE)
\* flush: only writing a heap buffer to the file can fail.
WriteFlush ==
    /\ main_pc = "flush"
    /\ WriteStep("flush", sized_output # None /\ sized_output.out = "InMemory")
WriteTraceClose == main_pc = "trace_close" /\ WriteStep("trace_close", TRUE)

\* drop(sized_output): the mapping is released.
WriteUnmap ==
    /\ main_pc = "unmap"
    /\ steps' = Append(steps, "unmap")
    /\ sized_output' = None
    /\ main_pc' = StepAfter("unmap")
    /\ UNCHANGED <<args, file_write_mode, creator, files, fs_log, set_sizes, bg, del_pc>>
    /\ UNCHANGED other_than_output

\* Ok(())
WriteReturn ==
    /\ main_pc = "return"
    /\ main_pc' = "returned_ok"
    /\ UNCHANGED <<args, file_write_mode, creator, files, fs_log, set_sizes, bg, del_pc,
                   sized_output, steps>>
    /\ UNCHANGED other_than_output
----------------------------------------------------------------------------
(* The TableWriter (release build: debug_assert_bail! checks nothing and   *)
(* integer arithmetic wraps).                                              *)

\* A machine word.  TLC's integers are 32 bits wide, so the 64-bit word of
\* the program is modelled with 16 bits; the wrap-around is kept.
WordModulus == 2 ^ 16
\* Subtraction that does not wrap.
UnboundedSub(a, b) == a - b
WrappingSub(a, b) == (a - b + WordModulus) % WordModulus
\* `x as i64`
AsI64(x) == IF x >= WordModulus \div 2 THEN x - WordModulus ELSE x

GOT_ENTRY_SIZE == 8
TLS_OFFSET_OFFSET == 8
CURRENT_EXE_TLS_MOD == 1

OutputKinds ==
    {"StaticExecutable(NonRelocatable)", "StaticExecutable(Relocatable)",
     "DynamicExecutable(NonRelocatable)", "DynamicExecutable(Relocatable)",
     "SharedObject"}
is_executable(kind) == kind # "SharedObject"
never_static_executable(kind) == FALSE
is_static_executable(kind) ==
    kind \in {"StaticExecutable(NonRelocatable)", "StaticExecutable(Relocatable)"}
is_relocatable(kind) ==
    kind \in {"StaticExecutable(Relocatable)", "DynamicExecutable(Relocatable)",
              "SharedObject"}

\* The flags of a Resolution that the TableWriter reads.
ValueFlags == {"ADDRESS", "DYNAMIC", "IFUNC", "CAN_BYPASS_GOT"}
ResolutionFlags ==
    {"EXPORT_DYNAMIC", "GOT_TLS_OFFSET", "GOT_TLS_MODULE", "GOT_TLS_DESCRIPTOR"}
GotTlsFlags == {"GOT_TLS_OFFSET", "GOT_TLS_MODULE", "GOT_TLS_DESCRIPTOR"}

\* TableWriter::tls, the address range of the TLS segment.
tls == [start |-> 2, end |-> 4]

\* Resolution.  An Option is the empty or the one-element sequence.  The raw
\* values are zero and the addresses around the two ends of the TLS segment.
RawValues == {0, tls.start - 1, tls.start + 1, tls.end, tls.end + 1}
NoGotResolution ==
    [raw_value |-> 0, got_address |-> <<>>, plt_address |-> <<>>,
     value_flags |-> {}, resolution_flags |-> {}, dynamic_symbol_index |-> <<>>]
Resolutions ==
    {NoGotResolution} \cup
    [raw_value : RawValues, got_address : {<<16>>}, plt_address : {<<>>, <<64>>},
     value_flags : SUBSET ValueFlags, resolution_flags : SUBSET ResolutionFlags,
     dynamic_symbol_index : {<<>>, <<1>>}]

\* Resolution::address(): the value, or an error.  (dynamic_symbol_index()
\* likewise is the field, or an error when it is None.)
address(res) == IF "ADDRESS" \in res.value_flags THEN <<res.raw_value>> ELSE <<>>

\* The cursors of a TableWriter: the buffers it took from the group's part
\* map.  The first five are the ones process_resolution consumes.
ResolutionCursors == {"got", "plt_got", "rela_plt", "rela_dyn_relative", "rela_dyn_general"}
Cursors ==
    ResolutionCursors \cup
    {"dynsym", "dynstr", "symtab_local", "symtab_global", "strtab", "eh_frame",
     "eh_frame_hdr", "dynamic", "versym", "version_d", "version_r"}

\* TableWriter::new.  `left` is the number of entries each cursor still
\* holds (.plt.got in PLT entries, the byte buffers in bytes); got, plt_got,
\* rela_plt, rela_dyn_relative and rela_dyn_general are the entries taken so
\* far, with what was written to them.  A GOT entry is <<>> until it is
\* written.  versym is None when its buffer is empty.
TableWriterNew(output_kind, sizes) ==
    [output_kind |-> output_kind,
     left |-> sizes,
     has_versym |-> sizes["versym"] # 0,
     got |-> <<>>, plt_got |-> <<>>, rela_plt |-> <<>>,
     rela_dyn_relative |-> <<>>, rela_dyn_general |-> <<>>]

\* Result<()> of a TableWriter method, with the writer as the method left it.
Ok(tw) == [status |-> "Ok", msg |-> "", tw |-> tw]
Err(tw, msg) == [status |-> "Err", msg |-> msg, tw |-> tw]
Panic(tw, msg) == [status |-> "Panic", msg |-> msg, tw |-> tw]

Rela(r_offset, r_addend, r_sym, r_type) ==
    [r_offset |-> r_offset, r_addend |-> r_addend, r_sym |-> r_sym, r_type |-> r_type]

\* A take that hands out two entries at once.
take_two_got_entries(tw) ==
    IF tw.left["got"] < 2
    THEN Err(tw, "Insufficient .got allocation")
    ELSE Ok([tw EXCEPT !.left["got"] = @ - 2, !.got = @ \o << <<>>, <<>> >>])

take_next_got_entry(tw) ==
    IF tw.left["got"] = 0
    THEN Err(tw, "Insufficient .got allocation")
    ELSE Ok([tw EXCEPT !.left["got"] = @ - 1, !.got = Append(@, <<>>)])

\* `*got_entry = value` for the entry taken last but `back`.
SetGotEntry(tw, back, value) == [tw EXCEPT !.got[Len(tw.got) - back] = <<value>>]

take_plt_got_entry(tw) ==
    IF tw.left["plt_got"] = 0
    THEN Err(tw, "Didn't allocate enough space in .plt.got")
    ELSE Ok([tw EXCEPT !.left["plt_got"] = @ - 1])

write_plt_entry(tw, got_address, plt_address) ==
    LET t == take_plt_got_entry(tw)
    IN  IF t.status # "Ok" THEN t
        ELSE Ok([t.tw EXCEPT !.plt_got =
                    Append(@, [got_address |-> got_address, plt_address |-> plt_address])])

write_rela_dyn_general(tw, place, sym, r_type, addend) ==
    IF tw.left["rela_dyn_general"] = 0
    THEN Err(tw, "Insufficient .rela.dyn (non-relative) allocation")
    ELSE Ok([tw EXCEPT !.left["rela_dyn_general"] = @ - 1,
                       !.rela_dyn_general = Append(@, Rela(place, addend, sym, r_type))])

write_dynamic_symbol_relocation(tw, place, addend, symbol_index) ==
    write_rela_dyn_general(tw, place, symbol_index, "DynamicSymbol", addend)

write_tpoff_relocation(tw, place, sym, addend) ==
    write_rela_dyn_general(tw, place, sym, "TpOff", addend)

write_dtpmod_relocation(tw, place, sym) ==
    write_rela_dyn_general(tw, place, sym, "DtpMod", 0)

write_dtpoff_relocation(tw, place, sym) ==
    write_rela_dyn_general(tw, place, sym, "DtpOff", 0)

write_tls_descriptor_relocation(tw, place, sym, addend) ==
    write_rela_dyn_general(tw, place, sym, "TlsDesc", addend)

write_address_relocation(tw, place, relative_address) ==
    IF tw.left["rela_dyn_relative"] = 0
    THEN Err(tw, "Insufficient .rela.dyn (relative) allocation")
    ELSE Ok([tw EXCEPT !.left["rela_dyn_relative"] = @ - 1,
                       !.rela_dyn_relative =
                           Append(@, Rela(place, relative_address, 0, "Relative"))])

\* slice_take_prefix_mut panics when .rela.plt is empty.
write_ifunc_relocation(tw, res) ==
    IF tw.left["rela_plt"] = 0
    THEN Panic(tw, "slice_take_prefix_mut")
    ELSE Ok([tw EXCEPT !.left["rela_plt"] = @ - 1,
                       !.rela_plt = Append(@, Rela(res.got_address[1], AsI64(res.raw_value),
                                                   0, "Irelative"))])

process_got_tls_offset(tw, res, got_address) ==
    LET t == take_next_got_entry(tw)
    IN  IF t.status # "Ok" THEN t
        ELSE IF \/ "DYNAMIC" \in res.value_flags
                \/ /\ "EXPORT_DYNAMIC" \in res.resolution_flags
                   /\ "CAN_BYPASS_GOT" \notin res.value_flags
        THEN IF res.dynamic_symbol_index = <<>>
             THEN Err(t.tw, "Missing dynamic_symbol_index")
             ELSE write_tpoff_relocation(t.tw, got_address, res.dynamic_symbol_index[1], 0)
        ELSE IF res.raw_value = 0
        THEN Ok(SetGotEntry(t.tw, 0, 0))
        ELSE IF ~(tls.start <= res.raw_value /\ res.raw_value <= tls.end)
        THEN Err(t.tw, "GotTlsOffset resolves to address not in TLS segment")
        ELSE IF is_executable(tw.output_kind)
        THEN Ok(SetGotEntry(t.tw, 0, WrappingSub(res.raw_value, tls.end)))
        ELSE write_tpoff_relocation(t.tw, got_address, 0,
                                    AsI64(WrappingSub(res.raw_value, tls.start)))

process_got_tls_mod(tw, res, got_address) ==
    LET t == take_next_got_entry(tw)
    IN  IF t.status # "Ok" THEN t
        ELSE
        LET first == IF is_executable(tw.output_kind)
                     THEN Ok(SetGotEntry(t.tw, 0, CURRENT_EXE_TLS_MOD))
                     ELSE write_dtpmod_relocation(
                              t.tw, got_address,
                              IF res.dynamic_symbol_index = <<>> THEN 0
                              ELSE res.dynamic_symbol_index[1])
        IN  IF first.status # "Ok" THEN first
            ELSE
            LET o == take_next_got_entry(first.tw)
            IN  IF o.status # "Ok" THEN o
                ELSE IF res.dynamic_symbol_index # <<>>
                THEN IF "CAN_BYPASS_GOT" \notin res.value_flags
                     THEN write_dtpoff_relocation(o.tw, got_address + TLS_OFFSET_OFFSET,
                                                  res.dynamic_symbol_index[1])
                     ELSE o
                ELSE IF address(res) = <<>>
                THEN Err(o.tw, "Expected address")
                ELSE Ok(SetGotEntry(o.tw, 0, WrappingSub(address(res)[1], tls.start)))

process_got_tls_descriptor(tw, res, got_address) ==
    LET t1 == take_next_got_entry(tw)
    IN  IF t1.status # "Ok" THEN t1
        ELSE
        LET t2 == take_next_got_entry(t1.tw)
        IN  IF t2.status # "Ok" THEN t2
            ELSE IF is_static_executable(tw.output_kind)
            THEN Err(t2.tw, "Cannot create dynamic TLSDESC relocation for a static executable")
            ELSE write_tls_descriptor_relocation(
                     t2.tw, got_address,
                     IF res.dynamic_symbol_index = <<>> THEN 0
                     ELSE res.dynamic_symbol_index[1],
                     IF res.dynamic_symbol_index = <<>>
                     THEN AsI64(WrappingSub(res.raw_value, tls.start))
                     ELSE 0)

\* The condition of the first non-TLS branch, with Rust's precedence: && binds
\* tighter than ||.
NeedsDynamicSymbolRelocationUnlessIfunc(res) ==
    /\ \/ "DYNAMIC" \in res.value_flags
       \/ /\ "EXPORT_DYNAMIC" \in res.resolution_flags
          /\ "CAN_BYPASS_GOT" \notin res.value_flags
    /\ "IFUNC" \notin res.value_flags

NeedsDynamicSymbolRelocation(res) ==
    \/ "DYNAMIC" \in res.value_flags
    \/ /\ "EXPORT_DYNAMIC" \in res.resolution_flags
       /\ "CAN_BYPASS_GOT" \notin res.value_flags
       /\ "IFUNC" \notin res.value_flags

process_resolution(tw, res) ==
    IF res.got_address = <<>> THEN Ok(tw)
    ELSE
    LET got_address == res.got_address[1]
        resolution_flags == res.resolution_flags
    IN  IF resolution_flags \cap GotTlsFlags # {}
        THEN
            LET r1 == IF "GOT_TLS_OFFSET" \in resolution_flags
                      THEN process_got_tls_offset(tw, res, got_address)
                      ELSE Ok(tw)
                a1 == IF "GOT_TLS_OFFSET" \in resolution_flags
                      THEN got_address + GOT_ENTRY_SIZE
                      ELSE got_address
                r2 == IF r1.status = "Ok" /\ "GOT_TLS_MODULE" \in resolution_flags
                      THEN process_got_tls_mod(r1.tw, res, a1)
                      ELSE r1
                a2 == IF "GOT_TLS_MODULE" \in resolution_flags
                      THEN a1 + 2 * GOT_ENTRY_SIZE
                      ELSE a1
            IN  IF r2.status = "Ok" /\ "GOT_TLS_DESCRIPTOR" \in resolution_flags
                THEN process_got_tls_descriptor(r2.tw, res, a2)
                ELSE r2
        ELSE
            LET t == take_next_got_entry(tw)
            IN  IF t.status # "Ok" THEN t
                ELSE
                LET r == IF NeedsDynamicSymbolRelocation(res)
                         THEN IF res.dynamic_symbol_index = <<>>
                              THEN Err(t.tw, "Missing dynamic_symbol_index")
                              ELSE write_dynamic_symbol_relocation(
                                       t.tw, got_address, 0, res.dynamic_symbol_index[1])
                         ELSE IF "IFUNC" \in res.value_flags
                         THEN write_ifunc_relocation(t.tw, res)
                         ELSE IF /\ "ADDRESS" \in res.value_flags
                                 /\ is_relocatable(tw.output_kind)
                         THEN write_address_relocation(
                                  SetGotEntry(t.tw, 0, res.raw_value), got_address,
                                  AsI64(res.raw_value))
                         ELSE Ok(SetGotEntry(t.tw, 0, res.raw_value))
                IN  IF r.status = "Ok" /\ res.plt_address # <<>>
                    THEN write_plt_entry(r.tw, got_address, res.plt_address[1])
                    ELSE r

\* SymbolTableWriter::check_exhausted and VersionWriter::check_exhausted.
SymbolTableExhausted(tw, local, global, strings) ==
    (local = "" \/ tw.left[local] = 0) /\ tw.left[global] = 0 /\ tw.left[strings] = 0

version_writer_check_exhausted(tw) ==
    IF tw.has_versym /\ tw.left["versym"] # 0
    THEN Err(tw, "Allocated too much space in .gnu.version")
    ELSE IF tw.left["version_r"] # 0
    THEN Err(tw, "Allocated too much space in .gnu.version_r")
    ELSE IF tw.left["version_d"] # 0
    THEN Err(tw, "Allocated too much space in .gnu.version_d")
    ELSE Ok(tw)

validate_empty(tw) ==
    IF tw.left["rela_dyn_relative"] # 0
    THEN Err(tw, "Allocated too much space in .rela.dyn (relative)")
    ELSE IF tw.left["rela_dyn_general"] # 0
    THEN Err(tw, "Allocated too much space in .rela.dyn (general)")
    ELSE IF ~SymbolTableExhausted(tw, "", "dynsym", "dynstr")
    THEN Err(tw, "Didn't use up all allocated dynsym/dynstr space")
    ELSE IF ~SymbolTableExhausted(tw, "symtab_local", "symtab_global", "strtab")
    THEN Err(tw, "Didn't use up all allocated symtab/strtab space")
    ELSE IF version_writer_check_exhausted(tw).status # "Ok"
    THEN version_writer_check_exhausted(tw)
    ELSE IF tw.left["eh_frame"] # 0
    THEN Err(tw, "Allocated too much space in .eh_frame")
    ELSE IF tw.left["eh_frame_hdr"] # 0
    THEN Err(tw, "Allocated too much space in .eh_frame_hdr")
    ELSE Ok(tw)

\* The part sizes a layout may hand to the writer for one resolution: what
\* process_resolution consumes, and that with one entry more or one entry
\* less in one of the parts.
Consumption(output_kind, res) ==
    LET r == process_resolution(
                 TableWriterNew(output_kind, [c \in Cursors |-> MaxEntries]), res)
    IN  [c \in Cursors |-> MaxEntries - r.tw.left[c]]

NearAllocations(output_kind, res) ==
    LET used == Consumption(output_kind, res)
        surplus == IF res.got_address = <<>> THEN Cursors ELSE ResolutionCursors
    IN  {used}
        \cup {[used EXCEPT ![c] = @ + 1] : c \in surplus}
        \cup {[used EXCEPT ![c] = @ - 1] : c \in {d \in ResolutionCursors : used[d] > 0}}

TableIdle ==
    /\ table_pc = "idle"
    /\ resolution = NoGotResolution
    /\ mem_sizes = [c \in Cursors |-> 0]
    /\ table_writer = TableWriterNew("SharedObject", [c \in Cursors |-> 0])
    /\ table_result = Ok(0)

\* verify_resolution_allocation up to TableWriter::new.
TableStart ==
    /\ table_pc = "new"
    /\ resolution \in Resolutions
    /\ \E output_kind \in OutputKinds :
        /\ mem_sizes \in NearAllocations(output_kind, resolution)
        /\ table_writer = TableWriterNew(output_kind, mem_sizes)
    /\ table_result = Ok(0)

\* table_writer.process_resolution(resolution)?
ProcessResolution ==
    /\ table_pc = "new"
    /\ LET r == process_resolution(table_writer, resolution)
       IN  /\ table_writer' = r.tw
           /\ table_result' = [r EXCEPT !.tw = 0]
           /\ table_pc' = CASE r.status = "Ok" -> "processed"
                            [] r.status = "Err" -> "returned"
                            [] OTHER -> "panicked"
    /\ UNCHANGED <<resolution, mem_sizes>>
    /\ UNCHANGED other_than_table

\* table_writer.validate_empty(mem_sizes)
ValidateEmpty ==
    /\ table_pc = "processed"
    /\ table_result' = [validate_empty(table_writer) EXCEPT !.tw = 0]
    /\ table_pc' = "validated"
    /\ UNCHANGED <<resolution, mem_sizes, table_writer>>
    /\ UNCHANGED other_than_table
----------------------------------------------------------------------------
(* SizedOutput::write, run twice on the same layout and the same output    *)
(* path.  The buffer is a sequence of cells; a cell is a number, 0 for a   *)
(* zero byte.  The note section holds the whole note (header, name and    *)
(* payload) in one cell.                                                  *)

EH_FRAME_HDR == "s1"
NOTE_GNU_BUILD_ID == "s3"

BuildIdOptions == {"Fast", "Hex", "Uuid", "None"}

EmitArgsSet ==
    [build_id : BuildIdOptions, file_write_mode : FileWriteModes, threaded : BOOLEAN,
     should_write_eh_frame_hdr : BOOLEAN]

\* The layouts the layout engine produces: the sections follow each other in
\* id order, with no padding or MaxPadding bytes of padding before the
\* second; the note section is empty or holds one note.
PackedOffsets(fs, padding) ==
    [s \in SectionIds |->
        CASE s = "s1" -> 0
          [] s = "s2" -> SectionFileSize(fs, "s1") + padding
          [] OTHER -> SectionFileSize(fs, "s1") + padding + SectionFileSize(fs, "s2")]

EmitLayouts ==
    {MakeLayout(fs, PackedOffsets(fs, padding)) :
        fs \in {f \in GroupFileSizes : SectionFileSize(f, NOTE_GNU_BUILD_ID) <= 1},
        padding \in {0, MaxPadding}}

\* The size the caller passes to set_size: the end of the last section.
LayoutSize(l) ==
    l.section_layouts["s3"].file_offset + l.section_layouts["s3"].file_size

\* File::set_len: the file is cut, or extended with zeros.
SetLen(file, n) == [i \in 1..n |-> IF i <= Len(file) THEN file[i] ELSE 0]
\* File::write_all at position 0.
WriteAll(file, bytes) ==
    [i \in 1..(IF Len(file) > Len(bytes) THEN Len(file) ELSE Len(bytes)) |->
        IF i <= Len(bytes) THEN bytes[i] ELSE file[i]]

\* `slice.copy_from_slice` / stores through a &mut [u8]: the cells of the
\* slice become values[offset in the slice].
Store(buf, slice, values) ==
    [i \in 1..Len(buf) |->
        IF (i - 1) \in Bytes(slice) THEN values[i - 1 - slice.start] ELSE buf[i]]

\* What the files of a group write at an offset of one of its parts: a
\* function of the layout alone.
GroupIndex(g) == CHOOSE i \in 1..Len(GroupOrder) : GroupOrder[i] = g
PartIndex(p) == CHOOSE i \in 1..Len(PartOrder) : PartOrder[i] = p
CellValue(g, p, k) == 1 + ((2 * GroupIndex(g) + PartIndex(p) + k) % 3)

\* blake3 of the whole buffer: a function of every cell and of its place.
RECURSIVE WeightedSum(_, _)
WeightedSum(buf, n) == IF n = 0 THEN 0 ELSE n * buf[n] + WeightedSum(buf, n - 1)
compute_hash(buf) == WeightedSum(buf, Len(buf)) % HashModulus

\* The note whose payload is build_id; never the zero cell.
NoteCell(build_id) == build_id + 1

\* The entries in the order the groups wrote them.
KeepOrder(entries) == entries

\* entries.sort_by_key(|e| e.frame_ptr), an entry being a cell.
SortByKey(entries) ==
    [i \in 1..Len(entries) |->
        CHOOSE v \in {entries[j] : j \in 1..Len(entries)} :
            /\ Cardinality({j \in 1..Len(entries) : entries[j] <= v}) >= i
            /\ Cardinality({j \in 1..Len(entries) : entries[j] < v}) < i]

\* sort_eh_frame_hdr_entries: the first cell of the section is the
\* EhFrameHdr, the entries behind it are sorted.  Indexing behind the header
\* panics when the section is shorter than the header.
sort_eh_frame_hdr_entries(buf, eh_frame_hdr) ==
    IF eh_frame_hdr.len < 1 THEN Panicked
    ELSE LET first == eh_frame_hdr.start + 2
             last == eh_frame_hdr.start + eh_frame_hdr.len
             sorted == SortByKey(SubSeq(buf, first, last))
         IN  [panic |-> FALSE,
              out |-> [i \in 1..Len(buf) |->
                          IF first <= i /\ i <= last THEN sorted[i - first + 1] ELSE buf[i]]]

\* write_gnu_build_id_note with the hash taken over the buffer whose note
\* section has been zeroed first.
write_gnu_build_id_note_zeroed(buf, build_id_option, l, uuid) ==
    IF build_id_option = "None" THEN [status |-> "Ok", out |-> buf]
    ELSE
    LET buffers == split_output_into_sections(l, Len(buf))
    IN  IF buffers.panic THEN [status |-> "Panic", out |-> buf]
        ELSE LET note == buffers.section_data[NOTE_GNU_BUILD_ID]
                 zeroed == Store(buf, note, [k \in 0..(note.len - 1) |-> 0])
                 build_id == CASE build_id_option = "Fast" -> compute_hash(zeroed)
                               [] build_id_option = "Hex" -> HashModulus
                               [] OTHER -> uuid
             IN  IF note.len < 1
                 THEN [status |-> "Err", out |-> buf]
                 ELSE IF note.len > 1
                 THEN [status |-> "Panic", out |-> buf]
                 ELSE [status |-> "Ok",
                       out |-> Store(buf, note, [k \in {0} |-> NoteCell(build_id)])]

\* write_gnu_build_id_note.  uuid is the value Uuid::new_v4() returns.
write_gnu_build_id_note(buf, build_id_option, l, uuid) ==
    IF build_id_option = "None" THEN [status |-> "Ok", out |-> buf]
    ELSE
    LET build_id == CASE build_id_option = "Fast" -> compute_hash(buf)
                      [] build_id_option = "Hex" -> HashModulus
                      [] OTHER -> uuid
        buffers == split_output_into_sections(l, Len(buf))
    IN  IF buffers.panic THEN [status |-> "Panic", out |-> buf]
        ELSE LET note == buffers.section_data[NOTE_GNU_BUILD_ID]
             IN  IF note.len < 1
                 THEN [status |-> "Err", out |-> buf]    \* insufficient_allocation
                 ELSE IF note.len > 1
                 THEN [status |-> "Panic", out |-> buf]  \* copy_from_slice: lengths differ
                 ELSE [status |-> "Ok",
                       out |-> Store(buf, note, [k \in {0} |-> NoteCell(build_id)])]

EmitIdle ==
    /\ emit_args = None
    /\ emit_layout = None
    /\ mmap_works = FALSE
    /\ emit_run = 0
    /\ emit_pc = "idle"
    /\ out = <<>>
    /\ file_contents = <<>>
    /\ emit_groups = <<>>
    /\ group_pc = <<>>
    /\ failed_groups = {}
    /\ writers = <<>>
    /\ outputs = <<>>

\* The first run starts: the output path names no file.  The layout has an
\* .eh_frame_hdr exactly when the arguments ask for one.
EmitStart ==
    /\ emit_args \in EmitArgsSet
    /\ emit_layout \in EmitLayouts
    /\ emit_args.should_write_eh_frame_hdr =
           (emit_layout.section_layouts[EH_FRAME_HDR].file_size >= 1)
    /\ mmap_works \in BOOLEAN
    /\ emit_run = 1
    /\ emit_pc = "new"
    /\ out = <<>>
    /\ file_contents = <<>>
    /\ emit_groups = <<>>
    /\ group_pc = <<>>
    /\ failed_groups = {}
    /\ writers = <<>>
    /\ outputs = <<>>

\* The file is provisioned: SizedOutput::new behind the rename of the
\* threaded set_size or the delete_old_output of the single-threaded write.
\* The old file stays in place only for a threaded update-in-place.
EmitNewBuffer ==
    /\ emit_pc = "new"
    /\ LET size == LayoutSize(emit_layout)
           kept == emit_args.file_write_mode = "UpdateInPlace" /\ emit_args.threaded
           file == SetLen(IF kept THEN file_contents ELSE <<>>, size)
       IN  /\ file_contents' = file
           /\ out' = IF mmap_works THEN file ELSE [i \in 1..size |-> 0]   \* vec![0; size]
           /\ writers' = [b \in 0..(size - 1) |-> {}]
    /\ emit_pc' = "split"
    /\ UNCHANGED <<emit_args, emit_layout, mmap_works, emit_run, emit_groups, group_pc,
                   failed_groups, outputs>>
    /\ UNCHANGED other_than_emit

\* write_file_contents up to the fan-out.
EmitSplit ==
    /\ emit_pc = "split"
    /\ LET sections == split_output_into_sections(emit_layout, Len(out))
           parts == IF sections.panic THEN Panicked
                    ELSE split_buffers_by_alignment(sections.section_data, emit_layout)
           groups == IF parts.panic THEN Panicked
                     ELSE split_output_by_group(emit_layout, parts.buckets)
       IN  IF groups.panic
           THEN /\ emit_pc' = "panicked"
                /\ UNCHANGED <<emit_groups, group_pc>>
           ELSE /\ emit_pc' = "groups"
                /\ emit_groups' = groups.groups
                /\ group_pc' = [g \in GroupIds |-> 1]
    /\ UNCHANGED <<emit_args, emit_layout, mmap_works, emit_run, out, file_contents,
                   failed_groups, writers, outputs>>
    /\ UNCHANGED other_than_emit

\* The buffers split_output_by_group handed to a group.
GroupBuffers(g) == emit_groups[GroupIndex(g)].buffers

\* The parts the files of a group write, in order: the buffers it holds,
\* but for the build-ID note, which nothing in the fan-out writes.
WrittenParts(g) ==
    SelectSeq(PartOrder,
              LAMBDA p : PartSection[p] # NOTE_GNU_BUILD_ID /\ GroupBuffers(g)[p].len > 0)

\* One group's closure writes its next part.
GroupWrite(g) ==
    /\ emit_pc = "groups"
    /\ g \notin failed_groups
    /\ group_pc[g] <= Len(WrittenParts(g))
    /\ LET p == WrittenParts(g)[group_pc[g]]
           slice == GroupBuffers(g)[p]
       IN  /\ out' = Store(out, slice, [k \in 0..(slice.len - 1) |-> CellValue(g, p, k)])
           /\ writers' = [b \in DOMAIN writers |->
                             IF b \in Bytes(slice) THEN writers[b] \cup {g} ELSE writers[b]]
    /\ group_pc' = [group_pc EXCEPT ![g] = @ + 1]
    /\ UNCHANGED <<emit_args, emit_layout, mmap_works, emit_run, emit_pc, file_contents,
                   emit_groups, failed_groups, outputs>>
    /\ UNCHANGED other_than_emit

\* One group's closure returns an error: file.write of one of its files
\* fails (before the part it would write next), or validate_empty fails
\* behind the last part.
GroupFail(g) ==
    /\ emit_pc = "groups"
    /\ g \notin failed_groups
    /\ failed_groups' = failed_groups \cup {g}
    /\ UNCHANGED <<emit_args, emit_layout, mmap_works, emit_run, emit_pc, out, file_contents,
                   emit_groups, group_pc, writers, outputs>>
    /\ UNCHANGED other_than_emit

\* A closure has returned; once a closure has failed, a closure that has not
\* started is not run.
GroupReturned(g) ==
    \/ g \in failed_groups
    \/ group_pc[g] > Len(WrittenParts(g))
    \/ failed_groups # {} /\ group_pc[g] = 1

\* try_for_each with the error of a closure discarded.
EmitJoinIgnoringErrors ==
    /\ emit_pc = "groups"
    /\ \A g \in GroupIds : GroupReturned(g)
    /\ emit_pc' = "sort"
    /\ UNCHANGED <<emit_args, emit_layout, mmap_works, emit_run, out, file_contents,
                   emit_groups, group_pc, failed_groups, writers, outputs>>
    /\ UNCHANGED other_than_emit

\* try_for_each(..)? returns when every closure has returned: Ok when all
\* of them returned Ok, else the error of one of them, which `?` returns
\* from write_file_contents, from SizedOutput::write and from Output::write.
EmitJoin ==
    /\ emit_pc = "groups"
    /\ \A g \in GroupIds : GroupReturned(g)
    /\ emit_pc' = IF failed_groups = {} THEN "sort" ELSE "returned_err"
    /\ UNCHANGED <<emit_args, emit_layout, mmap_works, emit_run, out, file_contents,
                   emit_groups, group_pc, failed_groups, writers, outputs>>
    /\ UNCHANGED other_than_emit

EmitSortEhFrameHdr ==
    /\ emit_pc = "sort"
    /\ IF emit_args.should_write_eh_frame_hdr
       THEN LET sections == split_output_into_sections(emit_layout, Len(out))
                r == IF sections.panic THEN Panicked
                     ELSE sort_eh_frame_hdr_entries(out, sections.section_data[EH_FRAME_HDR])
            IN  IF r.panic
                THEN emit_pc' = "panicked" /\ UNCHANGED out
                ELSE emit_pc' = "build_id" /\ out' = r.out
       ELSE emit_pc' = "build_id" /\ UNCHANGED out
    /\ UNCHANGED <<emit_args, emit_layout, mmap_works, emit_run, file_contents, emit_groups,
                   group_pc, failed_groups, writers, outputs>>
    /\ UNCHANGED other_than_emit

EmitBuildId ==
    /\ emit_pc = "build_id"
    /\ \E uuid \in 1..2 :
        LET r == write_gnu_build_id_note(out, emit_args.build_id, emit_layout, uuid)
        IN  /\ out' = r.out
            /\ emit_pc' = CASE r.status = "Ok" -> "flush"
                            [] r.status = "Err" -> "returned_err"
                            [] OTHER -> "panicked"
    /\ UNCHANGED <<emit_args, emit_layout, mmap_works, emit_run, file_contents, emit_groups,
                   group_pc, failed_groups, writers, outputs>>
    /\ UNCHANGED other_than_emit

\* SizedOutput::flush and the drop of the SizedOutput: the path now holds
\* the output of this run.
EmitFlush ==
    /\ emit_pc = "flush"
    /\ file_contents' = IF mmap_works THEN out ELSE WriteAll(file_contents, out)
    /\ outputs' = Append(outputs, file_contents')
    /\ emit_pc' = "done"
    /\ UNCHANGED <<emit_args, emit_layout, mmap_works, emit_run, out, emit_groups, group_pc,
                   failed_groups, writers>>
    /\ UNCHANGED other_than_emit

\* The linker is run again with the same arguments on the same layout.
EmitAgain ==
    /\ emit_pc = "done"
    /\ emit_run = 1
    /\ emit_run' = 2
    /\ emit_pc' = "new"
    /\ out' = <<>>
    /\ emit_groups' = <<>>
    /\ group_pc' = <<>>
    /\ failed_groups' = {}
    /\ writers' = <<>>
    /\ UNCHANGED <<emit_args, emit_layout, mmap_works, file_contents, outputs>>
    /\ UNCHANGED other_than_emit
----------------------------------------------------------------------------
(* ObjectLayout::write_file over the sections of one input object.  A      *)
(* section is a sequence of cells of four bytes: offsets, sizes and        *)
(* addresses count cells.  The architecture module (A::Relaxation,         *)
(* A::relocation_from_raw) and Resolution's methods are outside            *)
(* elf_writer.rs.                                                          *)

\* Most relocations the loaded sections of one object carry.
MaxRelocations == 3

\* Resolution::is_absolute and Resolution::value_with_addend (without the
\* merged strings).
is_absolute(res) == "ABSOLUTE" \in res.value_flags
value_with_addend(res, addend) == (res.raw_value + addend + WordModulus) % WordModulus

\* What the architecture says of a relocation type: the RelocationKind of
\* its rel_info, whether a relaxation applies and what the relaxation asks
\* for the next relocation.  A relaxed R_X86_64_TLSGD rewrites the
\* instruction and needs no value; the call that follows it is to be skipped.
RelTypes == {"R_X86_64_64", "R_X86_64_PC32", "R_X86_64_TLSGD"}
RelocationInfo(r_type) ==
    CASE r_type = "R_X86_64_64" ->
            [kind |-> "Absolute", relaxed |-> FALSE, next_modifier |-> "Normal"]
      [] r_type = "R_X86_64_PC32" ->
            [kind |-> "Relative", relaxed |-> FALSE, next_modifier |-> "Normal"]
      [] OTHER ->
            [kind |-> "None", relaxed |-> TRUE, next_modifier |-> "SkipNextRelocation"]

\* The resolutions of the symbol the relocations of the loaded sections
\* name.  The dynamic symbol index and the PLT address are read only for a
\* DYNAMIC and an IFUNC resolution, which have them.
TargetResolutions ==
    {res \in [raw_value : {5}, got_address : {<<>>}, plt_address : {<<>>, <<64>>},
              value_flags : SUBSET {"ABSOLUTE", "DYNAMIC", "IFUNC"},
              resolution_flags : {{}}, dynamic_symbol_index : {<<>>, <<1>>}] :
        /\ res.plt_address # <<>> <=> "IFUNC" \in res.value_flags
        /\ res.dynamic_symbol_index # <<>> <=> "DYNAMIC" \in res.value_flags}

\* The output kinds the objects are written for: one that is not
\* relocatable and two that are.
ObjectOutputKinds ==
    {"StaticExecutable(NonRelocatable)", "DynamicExecutable(Relocatable)", "SharedObject"}

\* The value of an applied relocation, next to the Result.
Valued(result, value) ==
    [status |-> result.status, msg |-> result.msg, tw |-> result.tw, value |-> value]

\* The first two rules in the opposite order.
write_absolute_relocation_relative_first(tw, res, place, addend, section_info) ==
    IF is_relocatable(tw.output_kind) /\ ~is_absolute(res)
    THEN Valued(write_address_relocation(tw, place, AsI64(value_with_addend(res, addend))), 0)
    ELSE IF "DYNAMIC" \in res.value_flags /\ section_info.is_writable
    THEN IF res.dynamic_symbol_index = <<>>
         THEN Valued(Err(tw, "Missing dynamic_symbol_index"), 0)
         ELSE Valued(write_dynamic_symbol_relocation(tw, place, addend,
                                                     res.dynamic_symbol_index[1]), 0)
    ELSE IF "IFUNC" \in res.value_flags
    THEN IF res.plt_address = <<>>
         THEN Valued(Err(tw, "Missing plt_address"), 0)
         ELSE Valued(Ok(tw), (res.plt_address[1] + addend + WordModulus) % WordModulus)
    ELSE Valued(Ok(tw), value_with_addend(res, addend))

write_absolute_relocation(tw, res, place, addend, section_info) ==
    IF "DYNAMIC" \in res.value_flags /\ section_info.is_writable
    THEN IF res.dynamic_symbol_index = <<>>
         THEN Valued(Err(tw, "Missing dynamic_symbol_index"), 0)
         ELSE Valued(write_dynamic_symbol_relocation(tw, place, addend,
                                                     res.dynamic_symbol_index[1]), 0)
    ELSE IF is_relocatable(tw.output_kind) /\ ~is_absolute(res)
    THEN Valued(write_address_relocation(tw, place, AsI64(value_with_addend(res, addend))), 0)
    ELSE IF "IFUNC" \in res.value_flags
    THEN IF res.plt_address = <<>>
         THEN Valued(Err(tw, "Missing plt_address"), 0)
         ELSE Valued(Ok(tw), (res.plt_address[1] + addend + WordModulus) % WordModulus)
    ELSE Valued(Ok(tw), value_with_addend(res, addend))

\* apply_relocation on the section bytes buf.  The result carries the
\* writer, the bytes and the RelocationModifier for the next relocation.
apply_relocation(tw, buf, offset_in_section, rel, section_info, symbols) ==
    LET failed(result) ==
            [status |-> result.status, msg |-> result.msg, tw |-> result.tw, buf |-> buf,
             next_modifier |-> "Normal"]
    IN  IF rel.r_sym = ""
        THEN failed(Err(tw, "Unsupported absolute relocation"))
        ELSE IF symbols[rel.r_sym].resolution = <<>>
        THEN failed(Err(tw, "Missing resolution"))
        ELSE
        LET res == symbols[rel.r_sym].resolution[1]
            info == RelocationInfo(rel.r_type)
            place == section_info.section_address + offset_in_section
            v == CASE info.kind = "Absolute" ->
                        write_absolute_relocation(tw, res, place, rel.r_addend, section_info)
                   [] info.kind = "Relative" ->
                        Valued(Ok(tw), WrappingSub(value_with_addend(res, rel.r_addend), place))
                   [] OTHER -> Valued(Ok(tw), 0)
        IN  IF v.status # "Ok" THEN failed(v)
            ELSE IF offset_in_section >= Len(buf)
            THEN failed(Panic(v.tw, "range start index out of range"))
            ELSE [status |-> "Ok", msg |-> "", tw |-> v.tw,
                  buf |-> [buf EXCEPT ![offset_in_section + 1] = v.value],
                  next_modifier |-> info.next_modifier]

\* One section slot of the object.  The i-th relocation of a loaded section
\* patches its i-th cell.
SectionSlot(kind, index, is_writable, data, relocations) ==
    [kind |-> kind, section_address |-> 16 * index, is_writable |-> is_writable,
     data |-> data, relocations |-> relocations]

LoadedSection(index, is_writable, types, addend) ==
    SectionSlot("Loaded", index, is_writable, [i \in 1..Len(types) |-> 0],
                [i \in 1..Len(types) |-> Rela(i - 1, addend, "target", types[i])])

\* The objects with two loaded sections and one symbol.
RelocatedObjects ==
    LET TypeSeqs == UNION {[1..n -> RelTypes] : n \in 0..MaxRelocations}
        TypeSeqPairs == {p \in TypeSeqs \X TypeSeqs : Len(p[1]) + Len(p[2]) <= MaxRelocations}
    IN  {[output_kind |-> kind,
          symbols |-> [s \in {"target"} |->
                          [section_address |-> <<>>, st_value |-> 0, resolution |-> <<res>>]],
          sections |-> <<LoadedSection(1, is_writable, p[1], 2),
                         LoadedSection(2, is_writable, p[2], 2)>>,
          eh_frame_hdr_address |-> 0] :
            kind \in ObjectOutputKinds, res \in TargetResolutions,
            is_writable \in BOOLEAN, p \in TypeSeqPairs}

\* ---- The .eh_frame rewriter.

\* Most entries (CIEs and FDEs) of one .eh_frame input section.
MaxEhFrameEntries == 3

\* size_of::<EhFrameEntryPrefix>() and elf::FDE_PC_BEGIN_OFFSET: 8 bytes.
PREFIX_LEN == 2
FDE_PC_BEGIN_OFFSET == 2

RECURSIVE Concat(_)
Concat(seqs) == IF seqs = <<>> THEN <<>> ELSE Head(seqs) \o Concat(Tail(seqs))

\* The entries of the input sections: a length cell, the CIE id (0 for a
\* CIE, else the distance from this cell back to the CIE) and two more
\* cells, the first of them at the pc-begin offset.  shape[1] is the CIE id,
\* shape[2] names the relocations of the entry.  The pc-begin relocation
\* names a function at offset `at` of a section that is loaded ("live") or
\* not ("dead").
EntryShapes ==
    {<<0, "none">>, <<0, "personality">>,
     <<5, "none">>, <<5, "live">>, <<5, "dead">>, <<5, "not_pc_begin">>, <<5, "relaxed">>,
     <<9, "live">>}
EntryData(shape) == <<3, shape[1], 0, 0>>
EntryRelocations(shape, at) ==
    CASE shape[2] = "none" -> <<>>
      [] shape[2] = "personality" -> <<Rela(at + 3, 0, "live", "R_X86_64_PC32")>>
      [] shape[2] = "live" -> <<Rela(at + 2, at, "live", "R_X86_64_PC32")>>
      [] shape[2] = "dead" -> <<Rela(at + 2, at, "dead", "R_X86_64_PC32")>>
      [] shape[2] = "not_pc_begin" ->
            <<Rela(at + 1, 0, "live", "R_X86_64_PC32"),
              Rela(at + 2, at, "live", "R_X86_64_PC32")>>
      [] OTHER ->
            <<Rela(at + 2, at, "live", "R_X86_64_TLSGD"),
              Rela(at + 3, 0, "live", "R_X86_64_PC32")>>

\* The objects with one .eh_frame section: its entries, with or without the
\* end marker of crtend.o behind them, and their relocations in offset
\* order.
\* The sequences of at most n entries.
ShapeSeqs(n) == UNION {[1..k -> EntryShapes] : k \in 1..n}

\* An .eh_frame section slot: its entries, with or without the end marker
\* of crtend.o behind them, and their relocations in offset order.
EhFrameData(index, shapes, marker) ==
    SectionSlot("EhFrameData", index, FALSE,
        Concat([i \in 1..Len(shapes) |-> EntryData(shapes[i])]) \o marker,
        Concat([i \in 1..Len(shapes) |-> EntryRelocations(shapes[i], 4 * (i - 1))]))

\* An object with these sections, the functions of its symbol "live" in a
\* section at address `live`.
EhFrameObject(sections, live, eh_frame_hdr_address) ==
    LET plain == [raw_value |-> 5, got_address |-> <<>>, plt_address |-> <<>>,
                  value_flags |-> {}, resolution_flags |-> {},
                  dynamic_symbol_index |-> <<>>]
    IN  [output_kind |-> "SharedObject",
         symbols |-> [s \in {"live", "dead"} |->
                         IF s = "live"
                         THEN [section_address |-> <<live>>, st_value |-> 1,
                               resolution |-> <<plain>>]
                         ELSE [section_address |-> <<>>, st_value |-> 0,
                               resolution |-> <<>>]],
         sections |-> sections,
         eh_frame_hdr_address |-> eh_frame_hdr_address]

\* The objects with one .eh_frame section.
EhFrameObjects ==
    {EhFrameObject(<<EhFrameData(1, shapes, marker)>>, 48, 8) :
        shapes \in ShapeSeqs(MaxEhFrameEntries), marker \in {<<>>, <<0>>}}

\* The same with the section of the functions, or .eh_frame_hdr, too far
\* away for a 32-bit difference.
EhFrameFarObjects ==
    {EhFrameObject(<<EhFrameData(1, shapes, <<>>)>>, place[1], place[2]) :
        shapes \in ShapeSeqs(MaxEhFrameEntries - 1), place \in {<<200, 8>>, <<48, 168>>}}

\* The objects with an empty loaded section and two .eh_frame sections, the
\* second a CIE and an FDE of a live function: two calls of
\* write_eh_frame_data on one TableWriter.
EhFramePairObjects ==
    {EhFrameObject(<<LoadedSection(1, FALSE, <<>>, 0),
                     EhFrameData(2, shapes, marker[1]),
                     EhFrameData(3, <<<<0, "none">>, <<5, "live">>>>, marker[2])>>, 48, 8) :
        shapes \in ShapeSeqs(MaxEhFrameEntries - 1),
        marker \in {<<>>, <<0>>} \X {<<>>, <<0>>}}

\* `v as i32`: the low half of the word.
i32_truncate(v) == <<((v + 2 ^ 7) % (2 ^ 8)) - 2 ^ 7>>

\* i32::try_from(v), an i32 being half a word wide: Some(v) as <<v>>, or
\* None as <<>>.
i32_try_from(v) == IF -(2 ^ 7) <= v /\ v < 2 ^ 7 THEN <<v>> ELSE <<>>

\* A take that never hands out an entry.
take_no_eh_frame_hdr_entry(tw) == <<>>

\* take_eh_frame_hdr_entry: None when the cursor is empty.
take_eh_frame_hdr_entry(tw) ==
    IF tw.left["eh_frame_hdr"] = 0 THEN <<>>
    ELSE <<[tw EXCEPT !.left["eh_frame_hdr"] = @ - 1]>>

take_eh_frame_data(tw, size) ==
    IF size > tw.left["eh_frame"]
    THEN Err(tw, "Insufficient .eh_frame allocation")
    ELSE Ok([tw EXCEPT !.left["eh_frame"] = @ - size])

\* The state write_eh_frame_data works on.
Rewriter(status, fr, tw, outp, log) ==
    [status |-> status, frame |-> fr, tw |-> tw, out |-> outp, log |-> log]

\* `while let Some(rel) = relocations.peek()` of a kept entry: the
\* relocations in front of next_input_pos are applied to entry_out, the
\* value apply_relocation returns is dropped.
RECURSIVE ApplyEntryRelocations(_, _, _, _, _)
ApplyEntryRelocations(st, sec, symbols, next_input_pos, entry_out) ==
    IF st.status # "Ok" \/ st.frame.rel > Len(sec.relocations) THEN <<st, entry_out>>
    ELSE
    LET rel == sec.relocations[st.frame.rel]
    IN  IF rel.r_offset >= next_input_pos THEN <<st, entry_out>>
        ELSE
        LET r == apply_relocation(
                     st.tw, entry_out, rel.r_offset - st.frame.input_pos, rel,
                     [section_address |-> st.frame.output_pos + st.tw.eh_frame_start_address,
                      is_writable |-> FALSE],
                     symbols)
        IN  IF r.status # "Ok"
            THEN <<Rewriter(r.status, st.frame, r.tw, st.out, st.log), r.buf>>
            ELSE ApplyEntryRelocations(
                     Rewriter("Ok", [st.frame EXCEPT !.rel = @ + 1], r.tw, st.out,
                              Append(st.log, [section |-> st.frame.section,
                                              rel |-> st.frame.rel, op |-> "applied"])),
                     sec, symbols, next_input_pos, r.buf)

\* A skip that leaves the relocations of the ignored entry in the iterator.
SkipNoEntryRelocations(st, sec, next_input_pos) == st

\* The relocations of an ignored entry are skipped.
RECURSIVE SkipEntryRelocations(_, _, _)
SkipEntryRelocations(st, sec, next_input_pos) ==
    IF st.frame.rel <= Len(sec.relocations)
       /\ sec.relocations[st.frame.rel].r_offset < next_input_pos
    THEN SkipEntryRelocations(
             Rewriter("Ok", [st.frame EXCEPT !.rel = @ + 1], st.tw, st.out,
                      Append(st.log, [section |-> st.frame.section, rel |-> st.frame.rel,
                                      op |-> "dropped"])),
             sec, next_input_pos)
    ELSE st

\* The distance from where the FDE was read.
input_cie_offset(fr, output_cie_pos) == fr.input_pos + 1 - output_cie_pos

\* `output_pos as u32 + 4 - *output_cie_pos`: the distance from the CIE
\* pointer of the FDE that is written back to the output copy of its CIE.
output_cie_offset(fr, output_cie_pos) == fr.output_pos + 1 - output_cie_pos

\* One turn of `while input_pos + PREFIX_LEN <= data.len()`.
write_eh_frame_entry(obj, st) ==
    LET sec == obj.sections[st.frame.section]
        data == sec.data
        input_pos == st.frame.input_pos
        output_pos == st.frame.output_pos
        cies == st.frame.cies_offset_conversion
        cie_id == data[input_pos + 2]
        size == 1 + data[input_pos + 1]
        next_input_pos == input_pos + size
        failed(tw, outp) == Rewriter("Err", st.frame, tw, outp, st.log)
        \* The entry is written: cie_pointer is the Option output_cie_offset.
        kept(tw, outp, new_cies, cie_pointer) ==
            LET t == take_eh_frame_data(tw, size)
                copy == SubSeq(data, input_pos + 1, next_input_pos)
                entry_out == IF cie_pointer = <<>> THEN copy
                             ELSE [copy EXCEPT ![2] = cie_pointer[1]]
                a == ApplyEntryRelocations(
                         Rewriter("Ok", [st.frame EXCEPT !.cies_offset_conversion = new_cies],
                                  t.tw, outp, st.log),
                         sec, obj.symbols, next_input_pos, entry_out)
            IN  IF t.status # "Ok" THEN failed(t.tw, outp)
                ELSE Rewriter(a[1].status,
                              IF a[1].status = "Ok"
                              THEN [a[1].frame EXCEPT !.input_pos = next_input_pos,
                                                      !.output_pos = output_pos + size]
                              ELSE a[1].frame,
                              a[1].tw,
                              [a[1].out EXCEPT !.eh_frame = @ \o a[2]],
                              a[1].log)
        ignored ==
            LET s == SkipEntryRelocations(st, sec, next_input_pos)
            IN  Rewriter("Ok", [s.frame EXCEPT !.input_pos = next_input_pos], s.tw, s.out, s.log)
    IN  IF next_input_pos > Len(data) THEN failed(st.tw, st.out)
        ELSE IF cie_id = 0
        THEN kept(st.tw, st.out,
                  {c \in cies : c[1] # input_pos} \cup {<<input_pos, output_pos>>}, <<>>)
        ELSE IF st.frame.rel > Len(sec.relocations) THEN ignored
        ELSE
        LET rel == sec.relocations[st.frame.rel]
            symbol == obj.symbols[rel.r_sym]
            offset_in_section == (symbol.st_value + rel.r_addend + WordModulus) % WordModulus
            cie_pointer_pos == input_pos + 1
            input_cie_pos == cie_pointer_pos - cie_id
            hdr == take_eh_frame_hdr_entry(st.tw)
            frame_ptr ==
                AsI64((symbol.section_address[1] + offset_in_section) % WordModulus)
                    - AsI64(obj.eh_frame_hdr_address)
            frame_info_ptr ==
                AsI64((st.tw.eh_frame_start_address + output_pos) % WordModulus)
                    - AsI64(obj.eh_frame_hdr_address)
            tw == IF hdr = <<>> THEN st.tw ELSE hdr[1]
            outp == IF hdr = <<>> THEN st.out
                    ELSE [st.out EXCEPT !.eh_frame_hdr =
                             Append(@, [frame_ptr |-> i32_try_from(frame_ptr)[1],
                                        frame_info_ptr |-> i32_try_from(frame_info_ptr)[1]])]
        IN  IF rel.r_offset >= next_input_pos
               \/ rel.r_offset - input_pos # FDE_PC_BEGIN_OFFSET
            THEN ignored
            ELSE IF rel.r_sym = "" THEN failed(st.tw, st.out)
            ELSE IF symbol.section_address = <<>> THEN ignored
            ELSE IF input_cie_pos < 0 THEN failed(st.tw, st.out)
            ELSE IF hdr # <<>> /\ <<>> \in {i32_try_from(frame_ptr), i32_try_from(frame_info_ptr)}
            THEN failed(hdr[1], st.out)
            ELSE IF \A c \in cies : c[1] # input_cie_pos THEN failed(tw, outp)
            ELSE kept(tw, outp, cies,
                      <<output_cie_offset(
                            st.frame, (CHOOSE c \in cies : c[1] = input_cie_pos)[2])>>)


NoObject ==
    [output_kind |-> "SharedObject", symbols |-> <<>>, sections |-> <<>>,
     eh_frame_hdr_address |-> 0]

\* Locals whose carry starts set.
FrameSkipping(section) ==
    [section |-> section, rel |-> 1, modifier |-> "SkipNextRelocation", input_pos |-> 0,
     output_pos |-> 0, cies_offset_conversion |-> {}]

\* The locals of apply_relocations (rel: the relocation the iterator is at,
\* modifier) and of write_eh_frame_data (rel, input_pos, output_pos,
\* cies_offset_conversion) for section slot `section` of write_file's loop.
Frame(section) ==
    [section |-> section, rel |-> 1, modifier |-> "Normal", input_pos |-> 0,
     output_pos |-> 0, cies_offset_conversion |-> {}]

ObjectTableWriter(output_kind, sizes) ==
    TableWriterNew(output_kind, sizes) @@ [eh_frame_start_address |-> 32]

ObjectIdle ==
    /\ object = NoObject
    /\ object_pc = "idle"
    /\ frame = Frame(0)
    /\ object_out = [sections |-> <<>>, eh_frame |-> <<>>, eh_frame_hdr |-> <<>>]
    /\ object_tw = ObjectTableWriter("SharedObject", [c \in Cursors |-> 0])
    /\ object_log = <<>>

\* What the layout has reserved for the object: enough .rela.dyn entries;
\* of .eh_frame the size of the input or a cell less, of .eh_frame_hdr
\* nothing, one entry or one for every entry of the input.  The objects
\* with a far section or header or with two .eh_frame sections come with
\* everything reserved.
Allocations(obj) ==
    LET sizes(eh_frame, eh_frame_hdr) ==
            [c \in Cursors |-> CASE c = "eh_frame" -> eh_frame
                                 [] c = "eh_frame_hdr" -> eh_frame_hdr
                                 [] OTHER -> MaxEntries]
        input == Len(Concat([i \in 1..Len(obj.sections) |->
                                IF obj.sections[i].kind = "EhFrameData"
                                THEN obj.sections[i].data ELSE <<>>]))
    IN  IF \A i \in 1..Len(obj.sections) : obj.sections[i].kind = "Loaded"
        THEN {sizes(0, 0)}
        ELSE IF \/ Len(obj.sections) > 1
                \/ obj.symbols["live"].section_address # <<48>>
                \/ obj.eh_frame_hdr_address # 8
        THEN {sizes(input, MaxEhFrameEntries)}
        ELSE {sizes(eh_frame, eh_frame_hdr) :
                eh_frame \in {input, input - 1},
                eh_frame_hdr \in {0, 1, MaxEhFrameEntries}}

\* The group's writer reaches the object.
ObjectStart ==
    /\ \/ object \in RelocatedObjects
       \/ object \in EhFrameObjects
       \/ object \in EhFrameFarObjects
       \/ object \in EhFramePairObjects
    /\ object_pc = "write_file"
    /\ frame = Frame(1)
    /\ object_out = [sections |-> [i \in 1..Len(object.sections) |-> <<>>],
                     eh_frame |-> <<>>, eh_frame_hdr |-> <<>>]
    /\ \E sizes \in Allocations(object) :
            object_tw = ObjectTableWriter(object.output_kind, sizes)
    /\ object_log = <<>>

\* One turn of the loop over self.sections, up to the first relocation of
\* the section: write_section_raw for a loaded section, the locals of
\* write_eh_frame_data for .eh_frame.
WriteFile ==
    /\ object_pc = "write_file"
    /\ IF frame.section > Len(object.sections)
       THEN /\ object_pc' = "done"
            /\ UNCHANGED <<frame, object_out>>
       ELSE LET sec == object.sections[frame.section]
            IN  /\ frame' = Frame(frame.section)
                /\ IF sec.kind = "Loaded"
                   THEN /\ object_pc' = "apply_relocations"
                        /\ object_out' = [object_out EXCEPT !.sections[frame.section] = sec.data]
                   ELSE /\ object_pc' = "write_eh_frame_data"
                        /\ UNCHANGED object_out
    /\ UNCHANGED <<object, object_tw, object_log>>
    /\ UNCHANGED other_than_object

LogEntry(op) == [section |-> frame.section, rel |-> frame.rel, op |-> op]

\* One turn of the loop of apply_relocations, or its end.
ApplyRelocations ==
    /\ object_pc = "apply_relocations"
    /\ LET sec == object.sections[frame.section]
       IN  IF frame.rel > Len(sec.relocations)
           THEN /\ object_pc' = "write_file"
                /\ frame' = [frame EXCEPT !.section = @ + 1]
                /\ UNCHANGED <<object_out, object_tw, object_log>>
           ELSE IF frame.modifier = "SkipNextRelocation"
           THEN /\ frame' = [frame EXCEPT !.modifier = "Normal", !.rel = @ + 1]
                /\ object_log' = Append(object_log, LogEntry("skipped"))
                /\ UNCHANGED <<object_pc, object_out, object_tw>>
           ELSE LET rel == sec.relocations[frame.rel]
                    r == apply_relocation(object_tw, object_out.sections[frame.section],
                                          rel.r_offset, rel, sec, object.symbols)
                IN  /\ object_tw' = r.tw
                    /\ object_out' = [object_out EXCEPT !.sections[frame.section] = r.buf]
                    /\ IF r.status = "Ok"
                       THEN /\ frame' = [frame EXCEPT !.modifier = r.next_modifier,
                                                      !.rel = @ + 1]
                            /\ object_log' = Append(object_log, LogEntry("applied"))
                            /\ UNCHANGED object_pc
                       ELSE /\ object_pc' = IF r.status = "Err" THEN "returned_err"
                                            ELSE "panicked"
                            /\ UNCHANGED <<frame, object_log>>
    /\ UNCHANGED object
    /\ UNCHANGED other_than_object

\* A rewriter that leaves the address where it found it.
keep_eh_frame_start_address(tw, output_pos) == tw

\* table_writer.eh_frame_start_address += output_pos as u64
advance_eh_frame_start_address(tw, output_pos) ==
    [tw EXCEPT !.eh_frame_start_address = (@ + output_pos) % WordModulus]

\* One turn of the loop of write_eh_frame_data, or what follows the loop:
\* the bytes too few for an entry are copied and eh_frame_start_address
\* moves behind what this section wrote.
WriteEhFrameData ==
    /\ object_pc = "write_eh_frame_data"
    /\ LET data == object.sections[frame.section].data
           remaining == Len(data) - frame.input_pos
       IN  IF frame.input_pos + PREFIX_LEN <= Len(data)
           THEN LET r == write_eh_frame_entry(
                             object, Rewriter("Ok", frame, object_tw, object_out, object_log))
                IN  /\ frame' = r.frame
                    /\ object_tw' = r.tw
                    /\ object_out' = r.out
                    /\ object_log' = r.log
                    /\ object_pc' = CASE r.status = "Ok" -> object_pc
                                      [] r.status = "Err" -> "returned_err"
                                      [] OTHER -> "panicked"
           ELSE LET t == IF remaining > 0 THEN take_eh_frame_data(object_tw, remaining)
                         ELSE Ok(object_tw)
                IN  IF t.status # "Ok"
                    THEN /\ object_pc' = "returned_err"
                         /\ UNCHANGED <<frame, object_tw, object_out, object_log>>
                    ELSE /\ object_pc' = "write_file"
                         /\ object_out' =
                                [object_out EXCEPT !.eh_frame =
                                    @ \o SubSeq(data, frame.input_pos + 1, Len(data))]
                         /\ object_tw' =
                                advance_eh_frame_start_address(
                                    t.tw, frame.output_pos + remaining)
                         /\ frame' = [frame EXCEPT !.section = @ + 1,
                                                   !.output_pos = @ + remaining]
                         /\ UNCHANGED object_log
    /\ UNCHANGED object
    /\ UNCHANGED other_than_object
----------------------------------------------------------------------------
(* write_gnu_hash_tables.  Sizes count cells of four bytes: the header of  *)
(* .gnu.hash has four, a word of the bloom filter two, a bucket and a      *)
(* chain word one.  A word of the bloom filter is the set of its set bits. *)

MaxSymbols == 3
MaxBuckets == 3

elf_class_bits == 64
GnuHashHeaderCells == 4
BloomWordCells == 2

\* The hashes of the symbol names: equal up to bit 0 (0 and 1, 2 and 3),
\* and in the second and the third 64-bit window (66, 131).
HashSamples == {0, 1, 2, 3, 66, 131}

\* A bucket or a chain word that the buffer held before the writer ran.
StaleCells == {0, 9}

GnuHashLayouts ==
    [bucket_count : 1..MaxBuckets, bloom_shift : {1, 6}, bloom_count : {1, 2},
     symbol_base : {1, 2}]

bucket_for_hash(gnu_hash_layout, hash) == hash % gnu_hash_layout.bucket_count

\* The layout orders the dynamic symbol definitions by bucket.
SortedByBucket(gnu_hash_layout, defs) ==
    \A i \in 1..(Len(defs) - 1) :
        bucket_for_hash(gnu_hash_layout, defs[i].hash)
            <= bucket_for_hash(gnu_hash_layout, defs[i + 1].hash)

SymbolDefinitions(n) == [1..n -> [hash : HashSamples]]

GnuHashSize(gnu_hash_layout, n) ==
    GnuHashHeaderCells + BloomWordCells * gnu_hash_layout.bloom_count
        + gnu_hash_layout.bucket_count + n

GnuHashTables(header, bloom, buckets, chains, i, start_of_chain, result) ==
    [header |-> header, bloom |-> bloom, buckets |-> buckets, chains |-> chains,
     i |-> i, start_of_chain |-> start_of_chain, result |-> result]

GnuHashIdle ==
    /\ epilogue = [none |-> TRUE]
    /\ gnu_hash_pc = "idle"
    /\ gnu_hash = [none |-> TRUE]

\* The epilogue with no .gnu.hash, or with a layout of the table, definitions
\* in the layout's order and a part that is as large as the table or a cell
\* smaller; the part holds zeros or what an earlier output left there.
GnuHashStart ==
    /\ \/ epilogue = [gnu_hash_layout |-> <<>>, dynamic_symbol_definitions |-> <<>>,
                      gnu_hash_size |-> 0, stale |-> 0]
       \/ \E l \in GnuHashLayouts, n \in 0..MaxSymbols, short \in {0, 1},
             stale \in StaleCells :
            \E defs \in SymbolDefinitions(n) :
                /\ SortedByBucket(l, defs)
                /\ epilogue = [gnu_hash_layout |-> <<l>>,
                               dynamic_symbol_definitions |-> defs,
                               gnu_hash_size |-> GnuHashSize(l, n) - short,
                               stale |-> stale]
    /\ gnu_hash_pc = "start"
    /\ gnu_hash = GnuHashTables(<<>>, <<>>, <<>>, <<>>, 0, TRUE, "none")

\* let bit1 = 1 << (hash % elf_class_bits);
\* let bit2 = 1 << ((hash >> bloom_shift) % elf_class_bits);
bloom_bits(gnu_hash_layout, hash) ==
    {hash % elf_class_bits,
     (hash \div (2 ^ gnu_hash_layout.bloom_shift)) % elf_class_bits}

bloom_index(gnu_hash_layout, hash) ==
    (hash \div elf_class_bits) % gnu_hash_layout.bloom_count

\* hash & !1 and word | 1
clear_bit0(hash) == hash - (hash % 2)

set_bit0(word) == clear_bit0(word) + 1

last_in_chain_by_hash(gnu_hash_layout, defs, i, bucket) ==
    \/ i + 1 > Len(defs)
    \/ defs[i + 1].hash # defs[i].hash

\* sym_defs.peek().is_none_or(|next| bucket_for_hash(next.hash) != bucket),
\* i counting the definitions from 1.
last_in_chain(gnu_hash_layout, defs, i, bucket) ==
    \/ i + 1 > Len(defs)
    \/ bucket_for_hash(gnu_hash_layout, defs[i + 1].hash) # bucket

\* The function up to the loop: the header, the three slices, bloom.fill(0).
GnuHashHeader ==
    /\ gnu_hash_pc = "start"
    /\ IF epilogue.gnu_hash_layout = <<>>
       THEN /\ gnu_hash_pc' = "returned"
            /\ gnu_hash' = [gnu_hash EXCEPT !.result = "Ok"]
       ELSE LET l == epilogue.gnu_hash_layout[1]
                n == Len(epilogue.dynamic_symbol_definitions)
                rest == epilogue.gnu_hash_size - GnuHashHeaderCells
                rest_bloom == rest - BloomWordCells * l.bloom_count
                rest_buckets == rest_bloom - l.bucket_count
                header == <<l.bucket_count, l.bloom_shift, l.bloom_count,
                            l.symbol_base>>
            IN  IF rest < 0
                THEN /\ gnu_hash_pc' = "returned"
                     /\ gnu_hash' = [gnu_hash EXCEPT
                            !.result = "Insufficient .gnu.hash allocation"]
                ELSE IF rest_bloom < 0
                THEN /\ gnu_hash_pc' = "returned"
                     /\ gnu_hash' = [gnu_hash EXCEPT
                            !.header = header,
                            !.result = "Insufficient bytes for .gnu.hash bloom filter"]
                ELSE IF rest_buckets < 0
                THEN /\ gnu_hash_pc' = "returned"
                     /\ gnu_hash' = [gnu_hash EXCEPT
                            !.header = header,
                            !.result = "Insufficient bytes for .gnu.hash buckets"]
                ELSE IF rest_buckets < n
                THEN /\ gnu_hash_pc' = "returned"
                     /\ gnu_hash' = [gnu_hash EXCEPT
                            !.header = header,
                            !.result = "Insufficient bytes for .gnu.hash chains"]
                ELSE /\ gnu_hash_pc' = "loop"
                     /\ gnu_hash' =
                            GnuHashTables(header,
                                          [w \in 1..l.bloom_count |-> {}],
                                          [b \in 1..l.bucket_count |-> epilogue.stale],
                                          [c \in 1..n |-> epilogue.stale],
                                          0, TRUE, "none")
    /\ UNCHANGED epilogue
    /\ UNCHANGED other_than_hash

\* One turn of the loop over the chain words.
GnuHashSymbol ==
    /\ gnu_hash_pc = "loop"
    /\ gnu_hash.i < Len(gnu_hash.chains)
    /\ LET l == epilogue.gnu_hash_layout[1]
           defs == epilogue.dynamic_symbol_definitions
           i == gnu_hash.i
           hash == defs[i + 1].hash
           bucket == bucket_for_hash(l, hash)
           last == last_in_chain(l, defs, i + 1, bucket)
       IN  gnu_hash' =
               [gnu_hash EXCEPT
                   !.bloom[bloom_index(l, hash) + 1] = @ \cup bloom_bits(l, hash),
                   !.chains[i + 1] =
                       IF last THEN set_bit0(clear_bit0(hash)) ELSE clear_bit0(hash),
                   !.buckets[bucket + 1] =
                       IF gnu_hash.start_of_chain THEN i + l.symbol_base ELSE @,
                   !.start_of_chain = last,
                   !.i = i + 1]
    /\ UNCHANGED <<epilogue, gnu_hash_pc>>
    /\ UNCHANGED other_than_hash

GnuHashReturn ==
    /\ gnu_hash_pc = "loop"
    /\ gnu_hash.i = Len(gnu_hash.chains)
    /\ gnu_hash_pc' = "returned"
    /\ gnu_hash' = [gnu_hash EXCEPT !.result = "Ok"]
    /\ UNCHANGED epilogue
    /\ UNCHANGED other_than_hash

----------------------------------------------------------------------------
(* write_epilogue_dynamic_entries and the static table of entry writers.   *)
(* A closure of the table is the pair of its kind and the section or part  *)
(* it reads; a string is its length in bytes.                              *)

MaxRpaths == 2

\* DynamicEntryWriter::new(tag, cb) and ::optional(tag, is_present_cb, cb)
DynamicEntryWriterNew(tag, cb) ==
    [tag |-> tag, is_present_cb |-> <<"always", "">>, cb |-> cb]

DynamicEntryWriterOptional(tag, is_present_cb, cb) ==
    [tag |-> tag, is_present_cb |-> is_present_cb, cb |-> cb]

EPILOGUE_DYNAMIC_ENTRY_WRITERS ==
    << DynamicEntryWriterOptional("DT_INIT", <<"has_data_in_section", "INIT">>,
                                  <<"vma_of_section", "INIT">>),
       DynamicEntryWriterOptional("DT_FINI", <<"has_data_in_section", "FINI">>,
                                  <<"vma_of_section", "FINI">>),
       DynamicEntryWriterOptional("DT_INIT_ARRAY", <<"has_data_in_section", "INIT_ARRAY">>,
                                  <<"vma_of_section", "INIT_ARRAY">>),
       DynamicEntryWriterOptional("DT_INIT_ARRAYSZ", <<"has_data_in_section", "INIT_ARRAY">>,
                                  <<"size_of_section", "INIT_ARRAY">>),
       DynamicEntryWriterOptional("DT_FINI_ARRAY", <<"has_data_in_section", "FINI_ARRAY">>,
                                  <<"vma_of_section", "FINI_ARRAY">>),
       DynamicEntryWriterOptional("DT_FINI_ARRAYSZ", <<"has_data_in_section", "FINI_ARRAY">>,
                                  <<"size_of_section", "FINI_ARRAY">>),
       DynamicEntryWriterNew("DT_STRTAB", <<"vma_of_section", "DYNSTR">>),
       DynamicEntryWriterNew("DT_STRSZ", <<"size_of_section", "DYNSTR">>),
       DynamicEntryWriterNew("DT_SYMTAB", <<"vma_of_section", "DYNSYM">>),
       DynamicEntryWriterNew("DT_SYMENT", <<"size_of", "SymtabEntry">>),
       DynamicEntryWriterOptional("DT_VERDEF", <<"part_mem_size", "GNU_VERSION_D">>,
                                  <<"vma_of_section", "GNU_VERSION_D">>),
       DynamicEntryWriterOptional("DT_VERDEFNUM", <<"part_mem_size", "GNU_VERSION_D">>,
                                  <<"non_addressable_counts", "verdef_count">>),
       DynamicEntryWriterOptional("DT_VERNEED", <<"part_mem_size", "GNU_VERSION_R">>,
                                  <<"vma_of_section", "GNU_VERSION_R">>),
       DynamicEntryWriterOptional("DT_VERNEEDNUM", <<"part_mem_size", "GNU_VERSION_R">>,
                                  <<"non_addressable_counts", "verneed_count">>),
       DynamicEntryWriterOptional("DT_VERSYM", <<"part_mem_size", "GNU_VERSION">>,
                                  <<"vma_of_section", "GNU_VERSION">>),
       DynamicEntryWriterOptional("DT_DEBUG", <<"output_kind", "not SharedObject">>,
                                  <<"zero", "">>),
       DynamicEntryWriterOptional("DT_JMPREL", <<"part_mem_size", "RELA_PLT">>,
                                  <<"vma_of_section", "RELA_PLT">>),
       DynamicEntryWriterOptional("DT_PLTGOT", <<"needs_dynamic", "">>,
                                  <<"vma_of_section", "GOT">>),
       DynamicEntryWriterOptional("DT_PLTREL", <<"part_mem_size", "RELA_PLT">>,
                                  <<"DT_RELA", "">>),
       DynamicEntryWriterOptional("DT_PLTRELSZ", <<"part_mem_size", "RELA_PLT">>,
                                  <<"part_mem_size", "RELA_PLT">>),
       DynamicEntryWriterOptional("DT_RELA", <<"has_rela_dyn", "">>,
                                  <<"vma_of_section", "RELA_DYN">>),
       DynamicEntryWriterOptional("DT_RELASZ", <<"has_rela_dyn", "">>,
                                  <<"size_of_section", "RELA_DYN">>),
       DynamicEntryWriterOptional("DT_RELAENT", <<"has_rela_dyn", "">>,
                                  <<"RELA_ENTRY_SIZE", "">>),
       DynamicEntryWriterNew("DT_RELACOUNT", <<"relative_count", "RELA_DYN_RELATIVE">>),
       DynamicEntryWriterNew("DT_GNU_HASH", <<"vma_of_section", "GNU_HASH">>),
       DynamicEntryWriterOptional("DT_FLAGS", <<"dt_flags", "">>, <<"dt_flags", "">>),
       DynamicEntryWriterOptional("DT_FLAGS_1", <<"dt_flags_1", "">>, <<"dt_flags_1", "">>),
       DynamicEntryWriterNew("DT_NULL", <<"zero", "">>) >>

NUM_EPILOGUE_DYNAMIC_ENTRIES == Len(EPILOGUE_DYNAMIC_ENTRY_WRITERS)

\* The sections and parts the table reads.
DynamicSections ==
    <<"INIT", "FINI", "INIT_ARRAY", "FINI_ARRAY", "DYNSTR", "DYNSYM", "GNU_VERSION_D",
      "GNU_VERSION_R", "GNU_VERSION", "RELA_PLT", "GOT", "RELA_DYN", "GNU_HASH">>

DynamicParts ==
    {"GNU_VERSION_D", "GNU_VERSION_R", "GNU_VERSION", "RELA_PLT", "RELA_DYN_RELATIVE",
     "RELA_DYN_GENERAL"}

SectionNumber(id) == CHOOSE k \in 1..Len(DynamicSections) : DynamicSections[k] = id

\* size_of::<elf::SymtabEntry>(), size_of::<elf::Rela>() and
\* elf::RELA_ENTRY_SIZE are 24 bytes, DT_RELA is 7.
SizeOfEntry == 24

\* DF_BIND_NOW, and DF_STATIC_TLS for a non-executable with static TLS
dt_flags(inputs) ==
    8 + (IF ~is_executable(inputs.args.output_kind) /\ inputs.has_static_tls
         THEN 16 ELSE 0)

\* DF_1_NOW, and DF_1_PIE for a relocatable executable
dt_flags_1(inputs) ==
    1 + (IF is_executable(inputs.args.output_kind)
            /\ is_relocatable(inputs.args.output_kind)
         THEN 134217728 ELSE 0)

vma_of_section(inputs, section_id) == inputs.section_layouts[section_id].mem_offset

size_of_section(inputs, section_id) == inputs.section_layouts[section_id].file_size

has_data_in_section(inputs, id) == size_of_section(inputs, id) > 0

has_rela_dyn(inputs) ==
    \/ inputs.section_part_layouts["RELA_DYN_RELATIVE"].mem_size > 0
    \/ inputs.section_part_layouts["RELA_DYN_GENERAL"].mem_size > 0

\* (self.is_present_cb)(inputs)
is_present(writer, inputs) ==
    LET kind == writer.is_present_cb[1]
        id == writer.is_present_cb[2]
    IN  CASE kind = "always" -> TRUE
          [] kind = "has_data_in_section" -> has_data_in_section(inputs, id)
          [] kind = "part_mem_size" -> inputs.section_part_layouts[id].mem_size > 0
          [] kind = "output_kind" -> inputs.args.output_kind # "SharedObject"
          [] kind = "needs_dynamic" -> inputs.args.needs_dynamic
          [] kind = "has_rela_dyn" -> has_rela_dyn(inputs)
          [] kind = "dt_flags" -> dt_flags(inputs) # 0
          [] kind = "dt_flags_1" -> dt_flags_1(inputs) # 0

\* (self.cb)(inputs)
entry_value(writer, inputs) ==
    LET kind == writer.cb[1]
        id == writer.cb[2]
    IN  CASE kind = "vma_of_section" -> vma_of_section(inputs, id)
          [] kind = "size_of_section" -> size_of_section(inputs, id)
          [] kind = "size_of" -> SizeOfEntry
          [] kind = "non_addressable_counts" -> inputs.non_addressable_counts[id]
          [] kind = "zero" -> 0
          [] kind = "DT_RELA" -> 7
          [] kind = "part_mem_size" -> inputs.section_part_layouts[id].mem_size
          [] kind = "RELA_ENTRY_SIZE" -> SizeOfEntry
          [] kind = "relative_count" ->
                inputs.section_part_layouts[id].mem_size \div SizeOfEntry
          [] kind = "dt_flags" -> dt_flags(inputs)
          [] kind = "dt_flags_1" -> dt_flags_1(inputs)

\* DynamicEntriesWriter::write and StrTabWriter::write_str on the cursors d.
DynamicEntriesWriter_write(d, tag, value) ==
    IF d.out = 0
    THEN [d EXCEPT !.result = "insufficient_allocation(.dynamic)"]
    ELSE [d EXCEPT !.out = @ - 1,
                   !.entries = Append(@, [d_tag |-> tag, d_val |-> value])]

write_str(d, str) ==
    LET len_with_terminator == str + 1
    IN  IF d.strtab_out < len_with_terminator
        THEN [d EXCEPT !.result = "panic: slice_take_prefix_mut"]
        ELSE [d EXCEPT !.strtab_out = @ - len_with_terminator,
                       !.next_offset = @ + len_with_terminator]

DynamicEntryWriter_write_unconditionally(writer, d, inputs) ==
    DynamicEntriesWriter_write(d, writer.tag, entry_value(writer, inputs))

\* DynamicEntryWriter::write
DynamicEntryWriter_write(writer, d, inputs) ==
    IF ~is_present(writer, inputs)
    THEN d
    ELSE DynamicEntriesWriter_write(d, writer.tag, entry_value(writer, inputs))

\* The Layout: the sections in with_data hold bytes, the parts in with_mem
\* hold memory, every section has an address of its own.
DynamicLayout(output_kind, needs_dynamic, rpaths, soname, has_static_tls,
              with_data, with_mem) ==
    [args |-> [output_kind |-> output_kind, needs_dynamic |-> needs_dynamic,
               rpaths |-> rpaths, soname |-> soname],
     has_static_tls |-> has_static_tls,
     section_layouts |->
        [id \in {DynamicSections[k] : k \in 1..Len(DynamicSections)} |->
            [mem_offset |-> 256 * SectionNumber(id),
             file_size |-> IF id \in with_data THEN 2 * SizeOfEntry ELSE 0]],
     section_part_layouts |->
        [id \in DynamicParts |->
            [mem_size |-> IF id \in with_mem THEN 2 * SizeOfEntry ELSE 0]],
     non_addressable_counts |->
        [verdef_count |-> IF "GNU_VERSION_D" \in with_mem THEN 2 ELSE 0,
         verneed_count |-> IF "GNU_VERSION_R" \in with_mem THEN 1 ELSE 0]]

SectionsWithData ==
    {{"DYNSTR", "DYNSYM", "GOT", "GNU_HASH"},
     {"DYNSTR", "DYNSYM", "GOT", "GNU_HASH", "INIT"},
     {"DYNSTR", "DYNSYM", "GOT", "GNU_HASH", "FINI_ARRAY", "RELA_DYN"},
     {DynamicSections[k] : k \in 1..Len(DynamicSections)}}

PartsWithMemory ==
    {{}, {"GNU_VERSION_R"}, {"RELA_PLT"}, {"RELA_DYN_GENERAL"},
     {"GNU_VERSION_D", "GNU_VERSION"}, DynamicParts}

\* The i-th rpath is i + 1 bytes long, the soname five.
Rpaths(n) == [i \in 1..n |-> i + 1]

Sonames == {<<>>, <<5>>}

StrTabSize(l) ==
    LET rpaths == l.args.rpaths
    IN  SumOver([i \in 1..Len(rpaths) |-> rpaths[i] + 1], 1..Len(rpaths))
            + (IF l.args.soname = <<>> THEN 0 ELSE l.args.soname[1] + 1)

DynamicSlots(l) ==
    NUM_EPILOGUE_DYNAMIC_ENTRIES + Len(l.args.rpaths)
        + (IF l.args.soname = <<>> THEN 0 ELSE 1)

DynamicCursors(slots, strtab_out) ==
    [out |-> slots, entries |-> <<>>, strtab_out |-> strtab_out, next_offset |-> 1,
     soname |-> <<>>, rpath |-> 0, writer |-> 0, result |-> "none"]

DynamicIdle ==
    /\ dynamic_inputs = [none |-> TRUE]
    /\ dynamic_pc = "idle"
    /\ dynamic_out = [none |-> TRUE]

\* The cursors hold what the layout reserves (a slot for every writer of the
\* table, every rpath and the soname), or .dynamic or .dynstr is too small.
DynamicStart ==
    /\ \E output_kind \in OutputKinds, needs_dynamic \in BOOLEAN,
          n \in 0..MaxRpaths, soname \in Sonames, has_static_tls \in BOOLEAN,
          with_data \in SectionsWithData, with_mem \in PartsWithMemory :
            dynamic_inputs = DynamicLayout(output_kind, needs_dynamic, Rpaths(n), soname,
                                           has_static_tls, with_data, with_mem)
    /\ dynamic_pc = "call"
    /\ \E short \in {"no", "dynamic", "no dynamic", "dynstr"} :
            dynamic_out =
                DynamicCursors(
                    CASE short = "dynamic" -> NUM_EPILOGUE_DYNAMIC_ENTRIES \div 2
                      [] short = "no dynamic" -> 0
                      [] OTHER -> DynamicSlots(dynamic_inputs),
                    IF short = "dynstr" THEN StrTabSize(dynamic_inputs) \div 2
                    ELSE StrTabSize(dynamic_inputs))

DynamicEnd(d) ==
    CASE d.result = "none" -> "loop"
      [] d.result = "panic: slice_take_prefix_mut" -> "panicked"
      [] OTHER -> "returned"

\* EpilogueLayout::write_file: if layout.args().needs_dynamic() { .. }
DynamicCall ==
    /\ dynamic_pc = "call"
    /\ dynamic_pc' = IF dynamic_inputs.args.needs_dynamic THEN "rpaths" ELSE "skipped"
    /\ UNCHANGED <<dynamic_inputs, dynamic_out>>
    /\ UNCHANGED other_than_dynamic

\* One turn of the loop over layout.args().rpaths.
DynamicRunpath ==
    /\ dynamic_pc = "rpaths"
    /\ dynamic_out.rpath < Len(dynamic_inputs.args.rpaths)
    /\ LET rpath == dynamic_inputs.args.rpaths[dynamic_out.rpath + 1]
           offset == dynamic_out.next_offset
           d1 == write_str(dynamic_out, rpath)
           d2 == IF d1.result = "none"
                 THEN DynamicEntriesWriter_write(d1, "DT_RUNPATH", offset)
                 ELSE d1
       IN  /\ dynamic_out' = [d2 EXCEPT !.rpath = @ + 1]
           /\ dynamic_pc' = IF DynamicEnd(d2) = "loop" THEN "rpaths" ELSE DynamicEnd(d2)
    /\ UNCHANGED dynamic_inputs
    /\ UNCHANGED other_than_dynamic

\* if let Some(soname) = .. { .. }, and the DynamicEntryInputs
DynamicSoname ==
    /\ dynamic_pc = "rpaths"
    /\ dynamic_out.rpath = Len(dynamic_inputs.args.rpaths)
    /\ IF dynamic_inputs.args.soname = <<>>
       THEN /\ dynamic_pc' = "writers"
            /\ UNCHANGED dynamic_out
       ELSE LET offset == dynamic_out.next_offset
                d1 == write_str(dynamic_out, dynamic_inputs.args.soname[1])
                d2 == IF d1.result = "none"
                      THEN DynamicEntriesWriter_write(d1, "DT_SONAME", offset)
                      ELSE d1
            IN  /\ dynamic_out' = IF d2.result = "none"
                                  THEN [d2 EXCEPT !.soname = <<offset>>]
                                  ELSE d2
                /\ dynamic_pc' =
                        IF DynamicEnd(d2) = "loop" THEN "writers" ELSE DynamicEnd(d2)
    /\ UNCHANGED dynamic_inputs
    /\ UNCHANGED other_than_dynamic

\* One turn of the loop over EPILOGUE_DYNAMIC_ENTRY_WRITERS.
DynamicWriter ==
    /\ dynamic_pc = "writers"
    /\ dynamic_out.writer < NUM_EPILOGUE_DYNAMIC_ENTRIES
    /\ LET writer == EPILOGUE_DYNAMIC_ENTRY_WRITERS[dynamic_out.writer + 1]
           d1 == DynamicEntryWriter_write(writer, dynamic_out, dynamic_inputs)
       IN  /\ dynamic_out' = [d1 EXCEPT !.writer = @ + 1]
           /\ dynamic_pc' = IF DynamicEnd(d1) = "loop" THEN "writers" ELSE DynamicEnd(d1)
    /\ UNCHANGED dynamic_inputs
    /\ UNCHANGED other_than_dynamic

DynamicReturn ==
    /\ dynamic_pc = "writers"
    /\ dynamic_out.writer = NUM_EPILOGUE_DYNAMIC_ENTRIES
    /\ dynamic_pc' = "returned"
    /\ dynamic_out' = [dynamic_out EXCEPT !.result = "Ok"]
    /\ UNCHANGED dynamic_inputs
    /\ UNCHANGED other_than_dynamic

----------------------------------------------------------------------------
(* The specifications. *)

vars == <<split_vars, output_vars, table_vars, emit_vars, object_vars, hash_vars,
         dynamic_vars>>

EpilogueIdle == GnuHashIdle /\ DynamicIdle

SplitInit ==
    SplitStart /\ OutputIdle /\ TableIdle /\ EmitIdle /\ ObjectIdle /\ EpilogueIdle
SplitNext == SplitIntoSections \/ SplitByAlignment \/ SplitByGroup
SpecSplit == SplitInit /\ [][SplitNext]_vars

OutputInit ==
    OutputNew /\ SplitIdle /\ TableIdle /\ EmitIdle /\ ObjectIdle /\ EpilogueIdle
OutputNext ==
    \/ SetSize
    \/ BgRename
    \/ BgCreate
    \/ BgSend
    \/ DeleteRenamed
    \/ WriteStart
    \/ WriteReceive
    \/ WriteContents
    \/ WriteValidate
    \/ WriteSortEhFrameHdr
    \/ WriteBuildId
    \/ WriteFlush
    \/ WriteTraceClose
    \/ WriteUnmap
    \/ WriteReturn
SpecOutput == OutputInit /\ [][OutputNext]_vars

\* The worker pool runs every spawned task, and the main thread runs: a step
\* that stays possible is taken.
OutputFairness ==
    /\ WF_vars(BgRename)
    /\ WF_vars(BgCreate)
    /\ WF_vars(BgSend)
    /\ WF_vars(DeleteRenamed)
    /\ WF_vars(WriteReceive)
SpecOutputFair == OutputInit /\ [][OutputNext]_vars /\ OutputFairness

TableInit ==
    TableStart /\ SplitIdle /\ OutputIdle /\ EmitIdle /\ ObjectIdle /\ EpilogueIdle
TableNext == ProcessResolution \/ ValidateEmpty
SpecTable == TableInit /\ [][TableNext]_vars

EmitInit ==
    EmitStart /\ SplitIdle /\ OutputIdle /\ TableIdle /\ ObjectIdle /\ EpilogueIdle
EmitNext ==
    \/ EmitNewBuffer
    \/ EmitSplit
    \/ \E g \in GroupIds : GroupWrite(g)
    \/ EmitJoin
    \/ EmitSortEhFrameHdr
    \/ EmitBuildId
    \/ EmitFlush
    \/ EmitAgain
SpecEmit == EmitInit /\ [][EmitNext]_vars

\* One run of SizedOutput::write and flush in which the closures of the
\* fan-out can fail.  How the file was provisioned plays no part in it.
FanOutInit ==
    /\ EmitInit
    /\ emit_args.file_write_mode = "UnlinkAndReplace"
    /\ ~emit_args.threaded
FanOutNext ==
    \/ EmitNewBuffer
    \/ EmitSplit
    \/ \E g \in GroupIds : GroupWrite(g)
    \/ \E g \in GroupIds : GroupFail(g)
    \/ EmitJoin
    \/ EmitSortEhFrameHdr
    \/ EmitBuildId
    \/ EmitFlush
SpecFanOut == FanOutInit /\ [][FanOutNext]_vars

ObjectInit ==
    ObjectStart /\ SplitIdle /\ OutputIdle /\ TableIdle /\ EmitIdle /\ EpilogueIdle
ObjectNext == WriteFile \/ ApplyRelocations \/ WriteEhFrameData
SpecObject == ObjectInit /\ [][ObjectNext]_vars

GnuHashInit ==
    /\ GnuHashStart /\ SplitIdle /\ OutputIdle /\ TableIdle /\ EmitIdle /\ ObjectIdle
    /\ DynamicIdle
GnuHashNext == GnuHashHeader \/ GnuHashSymbol \/ GnuHashReturn
SpecGnuHash == GnuHashInit /\ [][GnuHashNext]_vars

DynamicInit ==
    /\ DynamicStart /\ SplitIdle /\ OutputIdle /\ TableIdle /\ EmitIdle /\ ObjectIdle
    /\ GnuHashIdle
DynamicNext ==
    DynamicCall \/ DynamicRunpath \/ DynamicSoname \/ DynamicWriter \/ DynamicReturn
SpecDynamic == DynamicInit /\ [][DynamicNext]_vars

----------------------------------------------------------------------------
(* Claims about the splitters. *)

\* Two sections overlap when both hold bytes and their file ranges meet.
SectionRange(l, s) ==
    Bytes(Slice(l.section_layouts[s].file_offset, l.section_layouts[s].file_size))

SectionsOverlap(l) ==
    \E s, t \in SectionIds : s # t /\ SectionRange(l, s) \cap SectionRange(l, t) # {}

\* C1: split_output_into_sections hands out, for every section, the slice
\* that starts at the section's file_offset and is file_size bytes long; the
\* slices are pairwise disjoint and lie inside [0, buffer_len); a layout whose
\* sections overlap never gets slices, it aborts.
C1_SectionSlices ==
    /\ split_pc = "sections" =>
         /\ \A s \in SectionIds :
              /\ section_buffers[s].start = layout.section_layouts[s].file_offset
              /\ section_buffers[s].len = layout.section_layouts[s].file_size
              /\ Bytes(section_buffers[s]) \subseteq 0..(buffer_len - 1)
         /\ \A s, t \in SectionIds :
              s # t => Bytes(section_buffers[s]) \cap Bytes(section_buffers[t]) = {}
    /\ (split_pc # "start" /\ SectionsOverlap(layout)) => split_pc = "panic"

\* Three non-empty sections whose file order is not their id order, with
\* padding in front of one of them, have been split.
C1_Witness ==
    /\ split_pc = "sections"
    /\ \A s \in SectionIds : section_buffers[s].len > 0
    /\ section_buffers["s3"].start < section_buffers["s2"].start
    /\ section_buffers["s2"].start < section_buffers["s1"].start
    /\ section_buffers["s2"].start > section_buffers["s3"].start + section_buffers["s3"].len

\* What the groups before the i-th one take from part p.
RECURSIVE TakenBefore(_, _, _)
TakenBefore(l, i, p) ==
    IF i <= 1 THEN 0
    ELSE l.group_layouts[GroupOrder[i - 1]].file_sizes[p] + TakenBefore(l, i - 1, p)

\* C9: split_output_by_group gives the i-th group, for every part, the next
\* prefix of the part, of length exactly file_sizes[part], in group order;
\* when all groups have taken theirs every part of the part map is empty.
C9_GroupPrefixes ==
    [][(split_pc = "parts" /\ split_pc' = "groups") =>
         /\ Len(groups_and_buffers') = Len(GroupOrder)
         /\ \A i \in 1..Len(GroupOrder) :
              /\ groups_and_buffers'[i].group = GroupOrder[i]
              /\ \A p \in PartIds :
                   groups_and_buffers'[i].buffers[p] =
                       Slice(writable_buckets[p].start + TakenBefore(layout, i, p),
                             layout.group_layouts[GroupOrder[i]].file_sizes[p])
         /\ \A p \in PartIds : writable_buckets'[p].len = 0]_vars

\* Both groups have taken a non-empty prefix of the same part, the second
\* one behind the first.
C9_Witness ==
    /\ split_pc = "groups"
    /\ groups_and_buffers[1].buffers["p1"].len > 0
    /\ groups_and_buffers[2].buffers["p1"].len > 0
    /\ groups_and_buffers[2].buffers["p1"].start > groups_and_buffers[1].buffers["p1"].start
    /\ groups_and_buffers[2].buffers["p2"].len > 0

----------------------------------------------------------------------------
(* Claims about Output. *)

\* C5: when the file-write policy is update-in-place (the output path names
\* a device, socket or FIFO), no step of set_size or write renames, unlinks
\* or truncates the existing path, in threaded and single-threaded mode
\* (stated for the runs in which set_size has been called).
C5_UpdateInPlaceKeepsPath ==
    (file_write_mode = "UpdateInPlace" /\ files.found = "device" /\ set_sizes # <<>>) =>
        \A i \in 1..Len(fs_log) : fs_log[i] \notin {"rename", "unlink", "truncate"}

\* C6: set_size takes effect exactly once per Output: a second call is
\* rejected in threaded and in single-threaded mode and never replaces the
\* recorded size.
C6_SetSizeOnce ==
    /\ Len(set_sizes) >= 2 => main_pc = "panicked"
    /\ (creator # None /\ creator.kind = "Regular" /\ set_sizes # <<>>) =>
           creator.file_size = <<set_sizes[1]>>

\* The steps of a write that returns Ok, from the arguments.
ExpectedSteps ==
    <<"contents">>
    \o (IF args.validate_output THEN <<"validate">> ELSE <<>>)
    \o (IF args.should_write_eh_frame_hdr THEN <<"sort_eh_frame_hdr">> ELSE <<>>)
    \o <<"build_id", "flush", "trace_close", "unmap">>

\* C7: Output::write emits all group contents, validates (when
\* validate_output is set), sorts .eh_frame_hdr (when enabled), writes the
\* build-ID note, flushes, closes the trace and releases the mapping, in
\* this order, and returns Ok only after the last of them; the mapping is
\* not held when write returns Ok.
C7_WriteOrder ==
    /\ (args # None /\ Len(steps) > 0) =>
           /\ Len(steps) <= Len(ExpectedSteps)
           /\ steps = SubSeq(ExpectedSteps, 1, Len(steps))
    /\ main_pc = "returned_ok" => (steps = ExpectedSteps /\ sized_output = None)

\* A write with every optional step switched on has returned Ok.
C7_Witness ==
    /\ main_pc = "returned_ok"
    /\ args.validate_output
    /\ args.should_write_eh_frame_hdr
    /\ Len(steps) = 7

EmissionPcs ==
    {"contents", "validate", "sort_eh_frame_hdr", "build_id", "flush", "trace_close",
     "unmap"}

\* C8: in threaded mode, with set_size called and the background task
\* scheduled fairly, the wait in write always ends: with the provisioned
\* buffer when the file was created, with the error when it was not; write
\* never gets to the emission without a buffer.
C8_WaitEnds ==
    /\ (main_pc = "waiting") ~> (main_pc # "waiting")
    /\ [](main_pc \in EmissionPcs => sized_output # None)
    /\ [][(main_pc = "waiting" /\ main_pc' # "waiting") =>
            /\ bg.pc = "done"
            /\ IF bg.result.ok
               THEN main_pc' = "contents" /\ sized_output' = bg.result.sized_output
               ELSE main_pc' = "returned_err" /\ sized_output' = None]_vars

\* The wait of a threaded write has ended with the buffer that the
\* background task provisioned after renaming the old output away.
C8_Witness ==
    /\ main_pc = "contents"
    /\ creator.kind = "Background"
    /\ sized_output = bg.result.sized_output
    /\ Len(fs_log) = 2 /\ fs_log[1] = "rename" /\ fs_log[2] = "create"

\* C30: a call of Output::write that fails because set_size was never
\* called has no effect on the file system: in threaded and in
\* single-threaded mode the output path names what it named before, and
\* nothing was deleted, renamed, truncated or created.
C30_NoSizeNoEffect ==
    (main_pc \in {"returned_err", "panicked"} /\ set_sizes = <<>>) =>
        /\ fs_log = <<>>
        /\ files.path = files.found
        /\ files.sidecar = "absent"

\* C25: in threaded mode with the unlink-and-replace policy, the background
\* task renames the old output to the sidecar name before it opens the new
\* output file; the deletion of the sidecar is started only if the rename
\* succeeded; and the hand-over of the provisioned buffer to write never
\* waits for the deletion: the send and the receive can be taken whatever
\* the state of the deleting task.
C25_RenameThenDetachedDelete ==
    (creator.kind = "Background" /\ file_write_mode = "UnlinkAndReplace") =>
        /\ bg.pc = "rename" => fs_log = <<>>
        /\ \A i, j \in 1..Len(fs_log) :
               (fs_log[i] = "rename" /\ fs_log[j] \in {"create", "truncate", "open"}) => i < j
        /\ \A i \in 1..Len(fs_log) : fs_log[i] = "rename" => i = 1
        /\ del_pc # "none" => (fs_log # <<>> /\ fs_log[1] = "rename")
        /\ (fs_log # <<>> /\ fs_log[1] = "rename") => del_pc # "none"
        /\ bg.pc = "send" => ENABLED BgSend
        /\ (main_pc = "waiting" /\ creator.channel # <<>>) => ENABLED WriteReceive

\* write holds the provisioned buffer of the new file while the sidecar is
\* still there and its deletion has not run.
C25_Witness ==
    /\ creator.kind = "Background"
    /\ file_write_mode = "UnlinkAndReplace"
    /\ main_pc = "contents"
    /\ sized_output # None
    /\ del_pc = "spawned"
    /\ files.sidecar = "regular"
    /\ files.path = "new"
    /\ fs_log = <<"rename", "create">>

----------------------------------------------------------------------------
(* Claims about the TableWriter. *)

\* C2: when validate_empty returns Ok, every cursor of the TableWriter is
\* empty: .got, .plt.got, .rela.plt, both .rela.dyn, .dynsym/.dynstr,
\* .symtab/.strtab, .eh_frame, .eh_frame_hdr, .dynamic and the three
\* .gnu.version* cursors.
C2_EveryCursorEmpty ==
    (table_pc = "validated" /\ table_result.status = "Ok") =>
        \A c \in Cursors : table_writer.left[c] = 0

\* C10: for a resolution with a GOT address and no GOT_TLS_* flag, a
\* process_resolution that returns Ok has consumed exactly one GOT entry and
\* has taken exactly one of three branches: (1) DYNAMIC, or EXPORT_DYNAMIC and
\* not CAN_BYPASS_GOT and not IFUNC: one general dynamic relocation on the
\* dynamic symbol index, the GOT entry unwritten; (2) else IFUNC: one
\* IRELATIVE relocation in .rela.plt with offset = GOT address and addend =
\* raw value; (3) else the raw value in the GOT entry, and a RELATIVE
\* relocation exactly when the value is an ADDRESS and the output is
\* relocatable.
C10_NonTlsBranches ==
    (/\ table_pc \in {"processed", "validated"}
     /\ resolution.got_address # <<>>
     /\ resolution.resolution_flags \cap GotTlsFlags = {}) =>
        LET tw == table_writer
            got_address == resolution.got_address[1]
            value_flags == resolution.value_flags
            dynamic == \/ "DYNAMIC" \in value_flags
                       \/ /\ "EXPORT_DYNAMIC" \in resolution.resolution_flags
                          /\ "CAN_BYPASS_GOT" \notin value_flags
                          /\ "IFUNC" \notin value_flags
            ifunc == ~dynamic /\ "IFUNC" \in value_flags
        IN  /\ Len(tw.got) = 1
            /\ tw.left["got"] = mem_sizes["got"] - 1
            /\ dynamic =>
                /\ resolution.dynamic_symbol_index # <<>>
                /\ tw.rela_dyn_general =
                       <<Rela(got_address, 0, resolution.dynamic_symbol_index[1],
                              "DynamicSymbol")>>
                /\ tw.got[1] = <<>>
                /\ tw.rela_plt = <<>>
                /\ tw.rela_dyn_relative = <<>>
            /\ ifunc =>
                /\ tw.rela_plt =
                       <<Rela(got_address, AsI64(resolution.raw_value), 0, "Irelative")>>
                /\ tw.got[1] = <<>>
                /\ tw.rela_dyn_general = <<>>
                /\ tw.rela_dyn_relative = <<>>
            /\ (~dynamic /\ ~ifunc) =>
                /\ tw.got[1] = <<resolution.raw_value>>
                /\ tw.rela_dyn_relative =
                       IF "ADDRESS" \in value_flags /\ is_relocatable(tw.output_kind)
                       THEN <<Rela(got_address, AsI64(resolution.raw_value), 0, "Relative")>>
                       ELSE <<>>
                /\ tw.rela_dyn_general = <<>>
                /\ tw.rela_plt = <<>>

\* A DYNAMIC IFUNC symbol went through the first branch.
C10_Witness ==
    /\ table_pc = "processed"
    /\ resolution.got_address # <<>>
    /\ resolution.resolution_flags \cap GotTlsFlags = {}
    /\ {"DYNAMIC", "IFUNC"} \subseteq resolution.value_flags
    /\ Len(table_writer.rela_dyn_general) = 1
    /\ table_writer.rela_plt = <<>>

\* The resolution that was processed has a GOT address and exactly these
\* GOT_TLS_* flags.
TlsVariants(flags) ==
    /\ resolution.got_address # <<>>
    /\ resolution.resolution_flags \cap GotTlsFlags = flags

ProcessedOk == table_pc \in {"processed", "validated"}

\* C11: a resolution with a GOT address and any GOT_TLS_* flag skips normal
\* processing: no PLT stub is written even if a PLT address is present, and
\* exactly 1 [OFFSET] + 2 [MODULE] + 2 [DESCRIPTOR] GOT entries are consumed,
\* the variants being handled in that order, each at the GOT address directly
\* after the entries of the variants before it.
C11_TlsDispatch ==
    (/\ ProcessedOk
     /\ resolution.got_address # <<>>
     /\ resolution.resolution_flags \cap GotTlsFlags # {}) =>
        LET tw == table_writer
            flags == resolution.resolution_flags
            got_address == resolution.got_address[1]
            offset == IF "GOT_TLS_OFFSET" \in flags THEN 1 ELSE 0
            module == IF "GOT_TLS_MODULE" \in flags THEN 2 ELSE 0
            descriptor == IF "GOT_TLS_DESCRIPTOR" \in flags THEN 2 ELSE 0
            rank(r) == CASE r.r_type = "TpOff" -> 1 [] r.r_type = "DtpMod" -> 2
                         [] r.r_type = "DtpOff" -> 3 [] r.r_type = "TlsDesc" -> 4
                         [] OTHER -> 0
            place(r) == CASE r.r_type = "TpOff" -> got_address
                          [] r.r_type = "DtpMod" -> got_address + 8 * offset
                          [] r.r_type = "DtpOff" -> got_address + 8 * offset + 8
                          [] r.r_type = "TlsDesc" -> got_address + 8 * (offset + module)
                          [] OTHER -> -1
        IN  /\ Len(tw.got) = offset + module + descriptor
            /\ tw.left["got"] = mem_sizes["got"] - (offset + module + descriptor)
            /\ tw.plt_got = <<>>
            /\ tw.left["plt_got"] = mem_sizes["plt_got"]
            /\ tw.rela_plt = <<>>
            /\ tw.rela_dyn_relative = <<>>
            /\ \A i \in 1..Len(tw.rela_dyn_general) :
                   /\ tw.rela_dyn_general[i].r_offset = place(tw.rela_dyn_general[i])
                   /\ \A j \in 1..(i - 1) :
                          rank(tw.rela_dyn_general[j]) < rank(tw.rela_dyn_general[i])
            /\ (module = 2 /\ tw.output_kind # "SharedObject") =>
                   tw.got[offset + 1] = <<1>>
            /\ descriptor = 2 =>
                   /\ tw.got[offset + module + 1] = <<>>
                   /\ tw.got[offset + module + 2] = <<>>

\* All three variants were handled for a resolution that has a PLT address.
C11_Witness ==
    /\ table_pc = "processed"
    /\ TlsVariants(GotTlsFlags)
    /\ resolution.plt_address # <<>>
    /\ Len(table_writer.got) = 5
    /\ Len(table_writer.rela_dyn_general) >= 2

\* C12: GOT_TLS_OFFSET for a symbol that is neither DYNAMIC nor a
\* non-bypassable export.  A raw value of 0 leaves the entry 0 without a range
\* check; another address outside [tls.start, tls.end] is an error and tls.end
\* itself is accepted; an executable stores raw_value - tls.end, wrapped to
\* the word, and emits no relocation; any other output emits one TPOFF
\* relocation with the addend raw_value - tls.start.
C12_TlsOffset ==
    (/\ table_pc # "new"
     /\ TlsVariants({"GOT_TLS_OFFSET"})
     /\ "DYNAMIC" \notin resolution.value_flags
     /\ ~("EXPORT_DYNAMIC" \in resolution.resolution_flags
          /\ "CAN_BYPASS_GOT" \notin resolution.value_flags)
     /\ mem_sizes["got"] >= 1) =>
        LET tw == table_writer
            raw == resolution.raw_value
            in_range == tls.start <= raw /\ raw <= tls.end
        IN  /\ raw = 0 =>
                ProcessedOk /\ tw.got = << <<0>> >> /\ tw.rela_dyn_general = <<>>
            /\ (raw # 0 /\ ~in_range) =>
                table_pc = "returned" /\ tw.rela_dyn_general = <<>>
            /\ (raw # 0 /\ in_range /\ tw.output_kind # "SharedObject") =>
                /\ ProcessedOk
                /\ tw.got = << <<(raw - tls.end + WordModulus) % WordModulus>> >>
                /\ tw.rela_dyn_general = <<>>
            /\ (raw # 0 /\ in_range /\ tw.output_kind = "SharedObject"
                  /\ mem_sizes["rela_dyn_general"] >= 1) =>
                /\ ProcessedOk
                /\ tw.rela_dyn_general =
                       <<Rela(resolution.got_address[1], raw - tls.start, 0, "TpOff")>>

\* An executable stored the wrapped, negative offset of an address in the
\* TLS segment.
C12_Witness ==
    /\ table_pc = "processed"
    /\ TlsVariants({"GOT_TLS_OFFSET"})
    /\ resolution.raw_value = tls.start + 1
    /\ table_writer.got = << <<WordModulus - 1>> >>

\* C13: for an executable, GOT_TLS_MODULE writes the module id 1 into the
\* first GOT entry and address - tls.start into the second and emits no
\* dynamic relocation, also when the resolution has a dynamic symbol index.
C13_ExecutableTlsModule ==
    (/\ ProcessedOk
     /\ TlsVariants({"GOT_TLS_MODULE"})
     /\ table_writer.output_kind # "SharedObject") =>
        /\ table_writer.got =
               << <<1>>, <<(resolution.raw_value - tls.start + WordModulus) % WordModulus>> >>
        /\ table_writer.rela_dyn_general = <<>>

\* C14: GOT_TLS_DESCRIPTOR consumes two GOT entries; a static executable gets
\* an error and no relocation; any other output gets exactly one TLSDESC
\* relocation at the descriptor's GOT address, with the addend
\* raw_value - tls.start when the resolution has no dynamic symbol index and 0
\* when it has one.
C14_TlsDescriptor ==
    (/\ table_pc # "new"
     /\ TlsVariants({"GOT_TLS_DESCRIPTOR"})
     /\ mem_sizes["got"] >= 2) =>
        LET tw == table_writer
            static == tw.output_kind \in {"StaticExecutable(NonRelocatable)",
                                          "StaticExecutable(Relocatable)"}
            index == resolution.dynamic_symbol_index
        IN  /\ Len(tw.got) = 2
            /\ static => (table_pc = "returned" /\ tw.rela_dyn_general = <<>>)
            /\ (~static /\ mem_sizes["rela_dyn_general"] >= 1) =>
                /\ ProcessedOk
                /\ tw.rela_dyn_general =
                       <<Rela(resolution.got_address[1],
                              IF index = <<>> THEN resolution.raw_value - tls.start ELSE 0,
                              IF index = <<>> THEN 0 ELSE index[1],
                              "TlsDesc")>>

\* A static executable was refused after the two entries were taken.
C14_Witness ==
    /\ table_pc = "returned"
    /\ TlsVariants({"GOT_TLS_DESCRIPTOR"})
    /\ table_writer.output_kind = "StaticExecutable(Relocatable)"
    /\ Len(table_writer.got) = 2

\* C23: a take on a cursor with too few entries left returns an
\* insufficient-allocation error to the caller and leaves the cursor as it
\* was; none aborts the process: process_resolution ends with Ok or with an
\* error value, and after an error for an exhausted cursor that cursor
\* still holds nothing.
C23_TakesReturnErrors ==
    /\ table_pc # "panicked"
    /\ table_result.status # "Panic"
    /\ \A c \in ResolutionCursors :
        (table_pc = "returned" /\ table_writer.left[c] = 0 /\ mem_sizes[c] = 0) =>
            table_writer[c] = <<>>

----------------------------------------------------------------------------
(* Claims about the object writer. *)

\* What the log says was done with relocation rel of section slot section.
Handled(section, rel) ==
    {i \in DOMAIN object_log : object_log[i].section = section /\ object_log[i].rel = rel}

\* The relocation before rel in its section was applied and its relaxation
\* asked to skip the next one.
SkipRequested(section, rel) ==
    /\ rel > 1
    /\ \E i \in Handled(section, rel - 1) : object_log[i].op = "applied"
    /\ RelocationInfo(object.sections[section].relocations[rel - 1].r_type).next_modifier
           = "SkipNextRelocation"

\* C15: in apply_relocations the carry is Normal at the first relocation of
\* every section; a relocation is applied exactly when the carry is Normal
\* as the loop reaches it, which is when its predecessor in the same section
\* was not an applied relocation that asked for the skip; a relocation
\* reached with the carry set is consumed with no byte and no table entry
\* written and leaves the carry Normal.
C15_SkipCarry ==
    /\ [](object_pc = "apply_relocations" /\ frame.rel = 1 => frame.modifier = "Normal")
    /\ [](\A i \in DOMAIN object_log :
            LET e == object_log[i]
            IN  object.sections[e.section].kind = "Loaded" =>
                    /\ e.op \in {"applied", "skipped"}
                    /\ e.op = "skipped" <=> SkipRequested(e.section, e.rel))
    /\ [][object_pc = "apply_relocations"
            /\ frame.rel <= Len(object.sections[frame.section].relocations) =>
          IF frame.modifier = "SkipNextRelocation"
          THEN /\ object_out' = object_out
               /\ object_tw' = object_tw
               /\ frame' = [frame EXCEPT !.modifier = "Normal", !.rel = @ + 1]
               /\ object_log' = Append(object_log, LogEntry("skipped"))
          ELSE \/ object_pc' \in {"returned_err", "panicked"}
               \/ object_log' = Append(object_log, LogEntry("applied"))]_vars

\* A skip request suppressed one relocation and the one after it was
\* applied.
C15_Witness ==
    /\ object_pc = "done"
    /\ \E i \in DOMAIN object_log :
        /\ i + 1 \in DOMAIN object_log
        /\ object_log[i].op = "skipped"
        /\ object_log[i + 1].op = "applied"
        /\ object_log[i + 1].section = object_log[i].section

\* The relocation the loop of apply_relocations is at.
CurrentRelocation == object.sections[frame.section].relocations[frame.rel]

\* C16: an Absolute relocation that is applied takes the first rule that
\* matches: (1) DYNAMIC target in a writable section: one general dynamic
\* relocation at the place with the addend and the dynamic symbol index, and
\* the value 0; (2) relocatable output and a resolution that is not
\* absolute: one RELATIVE relocation at the place with the addend value +
\* addend, and the value 0; (3) IFUNC target: PLT address + addend and no
\* dynamic relocation; (4) otherwise value + addend and no dynamic
\* relocation.
C16_AbsoluteRules ==
    [][(/\ object_pc = "apply_relocations"
        /\ frame.rel <= Len(object.sections[frame.section].relocations)
        /\ frame.modifier = "Normal"
        /\ CurrentRelocation.r_type = "R_X86_64_64"
        /\ object_pc' = "apply_relocations") =>
       LET sec == object.sections[frame.section]
           rel == CurrentRelocation
           res == object.symbols[rel.r_sym].resolution[1]
           place == sec.section_address + rel.r_offset
           value == object_out'.sections[frame.section][rel.r_offset + 1]
           no_general == object_tw'.rela_dyn_general = object_tw.rela_dyn_general
           no_relative == object_tw'.rela_dyn_relative = object_tw.rela_dyn_relative
       IN  IF "DYNAMIC" \in res.value_flags /\ sec.is_writable
           THEN /\ res.dynamic_symbol_index # <<>>
                /\ object_tw'.rela_dyn_general =
                       Append(object_tw.rela_dyn_general,
                              [r_offset |-> place, r_addend |-> rel.r_addend,
                               r_sym |-> res.dynamic_symbol_index[1],
                               r_type |-> "DynamicSymbol"])
                /\ no_relative
                /\ value = 0
           ELSE IF object.output_kind # "StaticExecutable(NonRelocatable)"
                   /\ "ABSOLUTE" \notin res.value_flags
           THEN /\ object_tw'.rela_dyn_relative =
                       Append(object_tw.rela_dyn_relative,
                              [r_offset |-> place, r_addend |-> res.raw_value + rel.r_addend,
                               r_sym |-> 0, r_type |-> "Relative"])
                /\ no_general
                /\ value = 0
           ELSE IF "IFUNC" \in res.value_flags
           THEN /\ res.plt_address # <<>>
                /\ value = res.plt_address[1] + rel.r_addend
                /\ no_general /\ no_relative
           ELSE /\ value = res.raw_value + rel.r_addend
                /\ no_general /\ no_relative]_vars

\* An Absolute relocation that every rule matches was applied by the first:
\* a DYNAMIC IFUNC target in a writable section of a relocatable output.
C16_Witness ==
    /\ object_pc = "done"
    /\ object.output_kind = "SharedObject"
    /\ object.sections[1].is_writable
    /\ object.symbols["target"].resolution[1].value_flags = {"DYNAMIC", "IFUNC"}
    /\ Len(object.sections[1].relocations) = 1
    /\ object.sections[1].relocations[1].r_type = "R_X86_64_64"
    /\ Len(object_tw.rela_dyn_general) = 1
    /\ object_tw.rela_dyn_relative = <<>>

\* ---- The .eh_frame rewriter, read off its input.  An entry is named by the
\* offset it starts at in the input section.

EhFrameSection == object.sections[1]
\* The offsets at which the entries of the input start.
EntryOffsets ==
    {at \in 0..(Len(EhFrameSection.data) - PREFIX_LEN) : at % 4 = 0}
IsCie(at) == EhFrameSection.data[at + 2] = 0
\* The relocations whose offset lies inside the entry.
RelocationsInside(at) ==
    {i \in DOMAIN EhFrameSection.relocations :
        EhFrameSection.relocations[i].r_offset \in at..(at + 3)}
\* The entries the claims call kept: every CIE, and the FDE whose first
\* relocation is at the pc-begin offset and names a symbol of a section that
\* has an address.
IsKept(at) ==
    \/ IsCie(at)
    \/ /\ RelocationsInside(at) # {}
       /\ LET first == EhFrameSection.relocations[
                           CHOOSE i \in RelocationsInside(at) :
                               \A j \in RelocationsInside(at) : i <= j]
          IN  /\ first.r_offset = at + FDE_PC_BEGIN_OFFSET
              /\ object.symbols[first.r_sym].section_address # <<>>
KeptFdes == {at \in EntryOffsets : IsKept(at) /\ ~IsCie(at)}
\* Where a kept entry starts in the output of the section.
OutputOffset(at) == 4 * Cardinality({b \in EntryOffsets : b < at /\ IsKept(b)})
\* The rewriter has returned Ok for the .eh_frame section.
EhFrameWritten == object_pc = "done" /\ EhFrameSection.kind = "EhFrameData"
\* The entries the .eh_frame_hdr cursor held when the rewriter was entered.
EhFrameHdrReserved == object_tw.left["eh_frame_hdr"] + Len(object_out.eh_frame_hdr)

\* C17: after a rewrite that succeeds the output holds exactly the CIEs and
\* the FDEs whose next unconsumed relocation is at the pc-begin offset and
\* names a symbol of a live section, in input order; when the
\* .eh_frame_hdr cursor holds an entry for every kept FDE, one entry is
\* written per kept FDE, in order, and none for a dropped FDE or a CIE.
C17_KeptEntries ==
    EhFrameWritten =>
        /\ \A at \in EntryOffsets :
            IsKept(at) =>
                /\ OutputOffset(at) + 4 <= Len(object_out.eh_frame)
                /\ object_out.eh_frame[OutputOffset(at) + 1] = 3
                /\ (object_out.eh_frame[OutputOffset(at) + 2] = 0) <=> IsCie(at)
        /\ Len(object_out.eh_frame) =
               4 * Cardinality({at \in EntryOffsets : IsKept(at)})
                   + (Len(EhFrameSection.data) % 4)
        /\ Len(object_out.eh_frame_hdr) <= Cardinality(KeptFdes)
        /\ EhFrameHdrReserved >= Cardinality(KeptFdes) =>
               /\ Len(object_out.eh_frame_hdr) = Cardinality(KeptFdes)
               /\ \A at \in KeptFdes :
                    LET n == Cardinality({b \in KeptFdes : b <= at})
                    IN  object_out.eh_frame_hdr[n].frame_info_ptr =
                            32 + OutputOffset(at) - object.eh_frame_hdr_address

\* A CIE, an FDE of a dead section and an FDE of a live section were
\* rewritten with .eh_frame_hdr: two entries are kept, one header entry is
\* written.
C17_Witness ==
    /\ EhFrameWritten
    /\ EntryOffsets = {0, 4, 8}
    /\ IsCie(0) /\ ~IsKept(4) /\ IsKept(8) /\ ~IsCie(8)
    /\ RelocationsInside(4) # {}
    /\ Len(object_out.eh_frame_hdr) = 1
    /\ Len(object_out.eh_frame) = 8

\* The input offset the CIE pointer of the FDE at `at` names.
PointedCie(at) == at + 1 - EhFrameSection.data[at + 2]

\* C18: after a rewrite that succeeds, the CIE pointer of every kept FDE,
\* the second cell of its output copy, is the distance from that cell back
\* to the output copy of the CIE the input FDE named, however many FDEs
\* before it were dropped; the rewriter does not get past an FDE that is
\* to be kept and whose pointer reaches before the start of the section or
\* names an offset at which no CIE was read: it returns an error.
C18_CiePointer ==
    /\ EhFrameWritten =>
        \A at \in KeptFdes :
            /\ PointedCie(at) \in EntryOffsets
            /\ PointedCie(at) < at
            /\ IsCie(PointedCie(at))
            /\ object_out.eh_frame[OutputOffset(at) + 2] =
                   (OutputOffset(at) + 1) - OutputOffset(PointedCie(at))
    /\ EhFrameSection.kind = "EhFrameData" =>
        \A at \in KeptFdes :
            (PointedCie(at) < 0 \/ PointedCie(at) \notin EntryOffsets
                \/ ~IsCie(PointedCie(at))) =>
                    /\ frame.input_pos <= at
                    /\ object_pc \in {"write_file", "write_eh_frame_data", "returned_err"}

\* An FDE was kept behind a dropped FDE: its pointer was 9 cells and is 5.
C18_Witness ==
    /\ EhFrameWritten
    /\ \E at \in KeptFdes :
        /\ EhFrameSection.data[at + 2] = 9
        /\ OutputOffset(at) = 4
        /\ object_out.eh_frame[OutputOffset(at) + 2] = 5

\* The entry that holds offset r_offset of the input.
EntryOf(r_offset) == r_offset - (r_offset % 4)

\* C19: after a rewrite that succeeds every relocation of the section has
\* been handled exactly once: applied, at its offset in the output copy of
\* the entry that holds it, when that entry is kept, and dropped when the
\* entry is skipped; the turn of the loop that skips an entry writes no
\* byte and no table entry.
C19_EachRelocationOnce ==
    /\ [](EhFrameWritten =>
            \A i \in DOMAIN EhFrameSection.relocations :
                LET rel == EhFrameSection.relocations[i]
                    at == EntryOf(rel.r_offset)
                    offset == OutputOffset(at) + (rel.r_offset - at)
                IN  /\ Cardinality(Handled(1, i)) = 1
                    /\ \A n \in Handled(1, i) :
                        object_log[n].op = IF IsKept(at) THEN "applied" ELSE "dropped"
                    /\ IsKept(at) =>
                        object_out.eh_frame[offset + 1] =
                            IF rel.r_type = "R_X86_64_PC32"
                            THEN (5 + rel.r_addend - (32 + offset) + WordModulus) % WordModulus
                            ELSE 0)
    /\ [][(/\ object_pc = "write_eh_frame_data"
           /\ frame.input_pos \in EntryOffsets
           /\ ~IsKept(frame.input_pos)
           /\ object_pc' = "write_eh_frame_data") =>
          /\ object_out' = object_out
          /\ object_tw' = object_tw
          /\ frame'.input_pos = frame.input_pos + 4
          /\ \A n \in (DOMAIN object_log') \ DOMAIN object_log :
                /\ object_log'[n].op = "dropped"
                /\ object_log'[n].rel \in RelocationsInside(frame.input_pos)]_vars

\* The two relocations of a skipped FDE were dropped and the two of a kept
\* FDE behind it were applied.
C19_Witness ==
    /\ EhFrameWritten
    /\ Len(object_log) = 4
    /\ object_log[1].op = "dropped" /\ object_log[2].op = "dropped"
    /\ object_log[3].op = "applied" /\ object_log[4].op = "applied"

\* The n-th of the kept FDEs: the one the n-th entry of .eh_frame_hdr
\* belongs to.
NthKeptFde(kept, n) == CHOOSE at \in kept : Cardinality({b \in kept : b <= at}) = n
\* The pc-begin relocation of the kept FDE at `at`.
PcBeginRelocation(at) ==
    EhFrameSection.relocations[
        CHOOSE i \in RelocationsInside(at) :
            EhFrameSection.relocations[i].r_offset = at + FDE_PC_BEGIN_OFFSET]
\* The two pointers of the entry of the kept FDE at `at`, as signed
\* differences of full width.
FramePtr(at) ==
    LET rel == PcBeginRelocation(at)
        symbol == object.symbols[rel.r_sym]
    IN  AsI64(symbol.section_address[1] + symbol.st_value + rel.r_addend)
            - AsI64(object.eh_frame_hdr_address)
FrameInfoPtr(at) == AsI64(32 + OutputOffset(at)) - AsI64(object.eh_frame_hdr_address)
\* The values of an i32, half a word wide.
I32 == -(2 ^ 7)..(2 ^ 7 - 1)

\* C26: the n-th entry of .eh_frame_hdr belongs to the n-th kept FDE; its
\* frame_ptr is section_address + offset_in_section - eh_frame_hdr_address
\* and its frame_info_ptr is the output address of the FDE -
\* eh_frame_hdr_address, both as signed differences of full width that fit
\* 32 bits; the rewriter does not get past a kept FDE with an entry
\* reserved for it and a pointer that does not fit: it returns an error and
\* has stored no entry for it.
C26_HdrEntryPointers ==
    EhFrameSection.kind = "EhFrameData" =>
        LET kept == KeptFdes IN
        /\ Len(object_out.eh_frame_hdr) <= Cardinality(kept)
        /\ \A n \in 1..Len(object_out.eh_frame_hdr) :
            LET at == NthKeptFde(kept, n)
                entry == object_out.eh_frame_hdr[n]
            IN  /\ entry.frame_ptr = FramePtr(at) /\ entry.frame_ptr \in I32
                /\ entry.frame_info_ptr = FrameInfoPtr(at) /\ entry.frame_info_ptr \in I32
        /\ \A n \in 1..Cardinality(kept) :
            LET at == NthKeptFde(kept, n)
            IN  (/\ n <= EhFrameHdrReserved
                 /\ (FramePtr(at) \notin I32 \/ FrameInfoPtr(at) \notin I32)) =>
                    /\ frame.input_pos <= at
                    /\ Len(object_out.eh_frame_hdr) < n
                    /\ object_pc \in {"write_file", "write_eh_frame_data", "returned_err"}

\* The rewriter has returned an error at an FDE whose frame_ptr fits and
\* whose frame_info_ptr does not, behind its CIE, which it wrote.
C26_Witness ==
    /\ EhFrameSection.kind = "EhFrameData"
    /\ object_pc = "returned_err"
    /\ frame.input_pos = 4
    /\ 4 \in KeptFdes
    /\ FramePtr(4) \in I32
    /\ FrameInfoPtr(4) \notin I32
    /\ EhFrameHdrReserved >= 1
    /\ object_out.eh_frame_hdr = <<>>
    /\ Len(object_out.eh_frame) = 4

\* The bytes the .eh_frame cursor held when the object was reached.
EhFrameReserved == object_tw.left["eh_frame"] + Len(object_out.eh_frame)

\* C28: whenever no call of write_eh_frame_data is running,
\* eh_frame_start_address minus its initial value is the number of bytes
\* taken from the .eh_frame cursor so far, kept entries and trailing bytes,
\* which are the bytes written; a call moves the address once, when it
\* returns; and the frame_info_ptr of an entry of .eh_frame_hdr names the
\* address at which the bytes of its FDE are written.
C28_StartAddressFollowsCursor ==
    /\ [][EhFrameReserved' = EhFrameReserved]_vars
    /\ [](object_pc \in {"write_file", "apply_relocations", "done"} =>
            object_tw.eh_frame_start_address = 32 + Len(object_out.eh_frame))
    /\ [][(object_pc = "write_eh_frame_data" /\ object_pc' # "write_file") =>
            object_tw'.eh_frame_start_address = object_tw.eh_frame_start_address]_vars
    /\ [][(/\ Len(object_out'.eh_frame_hdr) > Len(object_out.eh_frame_hdr)
           /\ object_pc' = "write_eh_frame_data") =>
            LET entry == object_out'.eh_frame_hdr[Len(object_out'.eh_frame_hdr)]
                written == Len(object_out.eh_frame)
            IN  /\ Len(object_out'.eh_frame_hdr) = Len(object_out.eh_frame_hdr) + 1
                /\ entry.frame_info_ptr + object.eh_frame_hdr_address = 32 + written
                /\ Len(object_out'.eh_frame) = written + 4
                /\ object_out'.eh_frame[written + 1] = 3
                /\ object_out'.eh_frame[written + 2] # 0]_vars

\* Two .eh_frame sections were rewritten: the first gave a CIE and the end
\* marker, five cells; the FDE of the second lies at 32 + 5 + 4 and the
\* address has moved behind the thirteen cells of both.
C28_Witness ==
    /\ object_pc = "done"
    /\ Len(object.sections) = 3
    /\ Len(object_out.eh_frame) = 13
    /\ object_out.eh_frame[5] = 0
    /\ object_tw.left["eh_frame"] = 0
    /\ object_tw.eh_frame_start_address = 32 + 13
    /\ Len(object_out.eh_frame_hdr) = 1
    /\ object_out.eh_frame_hdr[1].frame_info_ptr = 32 + 5 + 4 - object.eh_frame_hdr_address

\* C29: inside a kept .eh_frame entry the carry is honored as in the
\* per-section loop: a relocation whose predecessor in the same entry was
\* applied with a relaxation that asked to skip the next relocation is
\* consumed and ignored, not applied.
C29_SkipCarryInEhFrame ==
    \A i \in DOMAIN object_log :
        LET e == object_log[i]
            relocations == object.sections[e.section].relocations
        IN  (/\ object.sections[e.section].kind = "EhFrameData"
             /\ SkipRequested(e.section, e.rel)
             /\ EntryOf(relocations[e.rel].r_offset) = EntryOf(relocations[e.rel - 1].r_offset))
                => e.op # "applied"

----------------------------------------------------------------------------
(* Claims about the emission. *)

\* C3: during the fan-out, under every interleaving of the group writers, no
\* byte of the buffer is written by two groups: a group writes only inside
\* the sub-slices split_output_by_group peeled off for it, and the sub-slices
\* of different groups are pairwise disjoint.
C3_NoCrossGroupWrites ==
    emit_pc \in {"groups", "sort", "build_id", "flush", "done"} =>
        /\ \A b \in DOMAIN writers : Cardinality(writers[b]) <= 1
        /\ \A b \in DOMAIN writers : \A g \in writers[b] :
               \E p \in PartIds : b \in Bytes(GroupBuffers(g)[p])
        /\ \A g, h \in GroupIds : \A p, q \in PartIds :
               g # h => Bytes(GroupBuffers(g)[p]) \cap Bytes(GroupBuffers(h)[q]) = {}

\* Both groups have written, and neither has finished.
C3_Witness ==
    /\ emit_pc = "groups"
    /\ \A g \in GroupIds : group_pc[g] <= Len(WrittenParts(g))
    /\ \A g \in GroupIds : \E b \in DOMAIN writers : writers[b] = {g}

\* C4: two runs of write on the same layout with the build-ID option Fast,
\* Hex or None leave the same output bytes, whatever the order of the group
\* writers.
C4_RunsIdentical ==
    (Len(outputs) = 2 /\ emit_args.build_id \in {"Fast", "Hex", "None"}) =>
        outputs[1] = outputs[2]
\* The places in the buffer (from 1) of the .eh_frame_hdr section: its first
\* cell is the header, the cells behind it are the entries.
EhFrameHdrCells ==
    LET s == emit_layout.section_layouts[EH_FRAME_HDR]
    IN  (s.file_offset + 1)..(s.file_offset + s.file_size)
EhFrameHdrEntryCells == EhFrameHdrCells \ {emit_layout.section_layouts[EH_FRAME_HDR].file_offset + 1}

\* C20: once write has sorted, with should_write_eh_frame_hdr set, the
\* entries of .eh_frame_hdr are in non-decreasing order of frame_ptr, in the
\* buffer and in the file a finished run leaves; the sort is one step of
\* the main thread, taken when every group writer has returned; it keeps
\* the header, every byte outside the section and the number of entries of
\* each value, and no later step of write changes the section.
C20_SortedAfterEmission ==
    /\ [](emit_args.should_write_eh_frame_hdr =>
            /\ emit_pc \in {"build_id", "flush", "done"} =>
                \A i, j \in EhFrameHdrEntryCells : i <= j => out[i] <= out[j]
            /\ emit_pc = "done" =>
                \A i, j \in EhFrameHdrEntryCells :
                    i <= j => file_contents[i] <= file_contents[j])
    /\ [](emit_pc = "sort" => \A g \in GroupIds : group_pc[g] > Len(WrittenParts(g)))
    /\ [][emit_pc = "sort" /\ emit_pc' = "build_id" =>
            /\ Len(out') = Len(out)
            /\ \A i \in DOMAIN out : i \notin EhFrameHdrEntryCells => out'[i] = out[i]
            /\ \A v \in {out[i] : i \in EhFrameHdrEntryCells} \cup
                        {out'[i] : i \in EhFrameHdrEntryCells} :
                    Cardinality({i \in EhFrameHdrEntryCells : out'[i] = v}) =
                        Cardinality({i \in EhFrameHdrEntryCells : out[i] = v})]_vars
    /\ [][(emit_pc \in {"build_id", "flush"}) =>
            (\A i \in EhFrameHdrCells : out'[i] = out[i])]_vars

\* The groups wrote the entries 3 and 1 behind the header, and the output
\* holds them as 1 and 3.
C20_Witness ==
    /\ emit_pc = "done"
    /\ emit_args.should_write_eh_frame_hdr
    /\ Cardinality(EhFrameHdrEntryCells) = 2
    /\ \E i \in EhFrameHdrEntryCells :
        /\ i + 1 \in EhFrameHdrEntryCells
        /\ CellValue("g2", "p1", 0) = 3 /\ CellValue("g2", "p2", 0) = 1
        /\ file_contents[i] = 1 /\ file_contents[i + 1] = 3

\* C24: if a file writer or a group's validate_empty returns an error
\* during the fan-out, write returns an error and none of the later steps
\* runs: from the first failure on write is in the fan-out or has returned
\* the error; the fan-out is left towards the error only; the entries of
\* .eh_frame_hdr are not sorted and the build-ID note is not written (only
\* the writers of the groups change the buffer, each inside its own
\* slices); and the buffer is not flushed to the file.
C24_FanOutErrorEndsWrite ==
    /\ [](failed_groups # {} => emit_pc \in {"groups", "returned_err"})
    /\ [][(failed_groups # {} /\ emit_pc = "groups" /\ emit_pc' # "groups") =>
            emit_pc' = "returned_err"]_vars
    /\ [][(failed_groups # {}) =>
            /\ file_contents' = file_contents
            /\ outputs' = outputs
            /\ \A i \in DOMAIN out : out'[i] # out[i] =>
                 \E g \in GroupIds \ failed_groups : \E p \in PartIds :
                    /\ PartSection[p] # NOTE_GNU_BUILD_ID
                    /\ (i - 1) \in Bytes(GroupBuffers(g)[p])
                    /\ writers'[i - 1] = {g}]_vars

\* With a heap-backed buffer, an .eh_frame_hdr asked for and the build-ID
\* option Fast, one group failed after the other had written all its parts:
\* write has returned the error, the file holds no byte of the buffer, the
\* entries are out of order and the note is missing.
C24_Witness ==
    /\ emit_pc = "returned_err"
    /\ failed_groups = {"g1"}
    /\ group_pc["g2"] > Len(WrittenParts("g2"))
    /\ ~mmap_works
    /\ emit_args.should_write_eh_frame_hdr
    /\ emit_args.build_id = "Fast"
    /\ \E i \in DOMAIN out : out[i] # 0
    /\ \A i \in DOMAIN file_contents : file_contents[i] = 0
    /\ \E i, j \in EhFrameHdrEntryCells : i < j /\ out[i] > out[j]
    /\ emit_layout.section_layouts[NOTE_GNU_BUILD_ID].file_size = 1
    /\ out[emit_layout.section_layouts[NOTE_GNU_BUILD_ID].file_offset + 1] = 0

\* The places in the buffer (from 1) of the .note.gnu.build-id section.
NoteCells ==
    LET s == emit_layout.section_layouts[NOTE_GNU_BUILD_ID]
    IN  (s.file_offset + 1)..(s.file_offset + s.file_size)

\* C27: the build-ID note write is the last modification of the output
\* buffer: it runs when every group writer has returned and the entries of
\* .eh_frame_hdr are sorted; the Fast hash is the hash of the buffer as it
\* is before the note is written, the payload bytes included; the step
\* changes no byte outside .note.gnu.build-id; with the option None it
\* changes no byte at all; and the flush behind it leaves the buffer alone.
C27_BuildIdLast ==
    /\ [](emit_pc = "build_id" =>
            /\ \A g \in GroupIds : group_pc[g] > Len(WrittenParts(g))
            /\ emit_args.should_write_eh_frame_hdr =>
                 \A i, j \in EhFrameHdrEntryCells : i <= j => out[i] <= out[j])
    /\ [][(emit_pc = "build_id") =>
            /\ Len(out') = Len(out)
            /\ \A i \in DOMAIN out : i \notin NoteCells => out'[i] = out[i]
            /\ emit_args.build_id = "None" => out' = out
            /\ (emit_args.build_id = "Fast" /\ emit_pc' = "flush") =>
                 \A i \in NoteCells : out'[i] = NoteCell(compute_hash(out))]_vars
    /\ [][(emit_pc = "flush") => out' = out]_vars

\* The second run maps the file the first run left: the Fast hash was taken
\* over a buffer that held the note of the first run, and the note of the
\* second run differs from it.
C27_Witness ==
    /\ emit_pc = "flush"
    /\ emit_run = 2
    /\ mmap_works
    /\ emit_args.build_id = "Fast"
    /\ emit_args.should_write_eh_frame_hdr
    /\ Cardinality(NoteCells) = 1
    /\ \A i \in NoteCells : out[i] # outputs[1][i] /\ outputs[1][i] # 0

----------------------------------------------------------------------------
(* Claims about the epilogue. *)

\* The walk of the dynamic loader along a chain, from chain index c: the
\* indices whose word equals the hash with bit 0 masked, up to and including
\* the first word with bit 0 set.
RECURSIVE ChainWalk(_, _, _)
ChainWalk(chains, c, hash) ==
    IF c + 1 > Len(chains)
    THEN {}
    ELSE (IF chains[c + 1] - (chains[c + 1] % 2) = hash - (hash % 2) THEN {c} ELSE {})
             \cup (IF chains[c + 1] % 2 = 1 THEN {} ELSE ChainWalk(chains, c + 1, hash))

\* The GNU hash lookup over the emitted table: the bloom filter must hold both
\* bits of the hash, the bucket of the hash gives the symbol index of the start
\* of the chain (0: no chain), the chain index is the symbol index less
\* symbol_base.
GnuHashLookup(t, hash) ==
    LET bucket_count == t.header[1]
        bloom_shift == t.header[2]
        bloom_count == t.header[3]
        symbol_base == t.header[4]
        word == t.bloom[((hash \div 64) % bloom_count) + 1]
        start == t.buckets[(hash % bucket_count) + 1]
    IN  IF ~({hash % 64, (hash \div (2 ^ bloom_shift)) % 64} \subseteq word)
        THEN {}
        ELSE IF start < symbol_base
        THEN {}
        ELSE ChainWalk(t.chains, start - symbol_base, hash)

\* C21: whenever write_gnu_hash_tables has closed a chain, and so when it has
\* returned Ok, the GNU hash lookup over the table written so far (bloom
\* filter, bucket of the hash, chain walk with bit 0 masked up to the first
\* word with bit 0 set) reaches, for every definition written, the chain index
\* of that definition with a matching word.
C21_LookupFindsDefinition ==
    (/\ gnu_hash_pc \in {"loop", "returned"}
     /\ gnu_hash.result \in {"none", "Ok"}
     /\ epilogue.gnu_hash_layout # <<>>
     /\ gnu_hash.start_of_chain) =>
        \A i \in 1..gnu_hash.i :
            (i - 1) \in GnuHashLookup(gnu_hash,
                                      epilogue.dynamic_symbol_definitions[i].hash)

\* A table written over stale cells with two definitions of different hashes
\* in one bucket, the second found behind the first, and some bucket that no
\* definition has opened.
C21_Witness ==
    /\ gnu_hash_pc = "returned"
    /\ gnu_hash.result = "Ok"
    /\ epilogue.stale # 0
    /\ \E b \in 1..Len(gnu_hash.buckets) : gnu_hash.buckets[b] = epilogue.stale
    /\ \E i \in 1..(gnu_hash.i - 1) :
        LET defs == epilogue.dynamic_symbol_definitions
        IN  /\ defs[i].hash \div 2 # defs[i + 1].hash \div 2
            /\ gnu_hash.chains[i] % 2 = 0
            /\ GnuHashLookup(gnu_hash, defs[i + 1].hash) = {i}
            /\ defs[i + 1].hash >= 64

\* The tags of the entries written, in order.
DynamicTags(entries) == [k \in 1..Len(entries) |-> entries[k].d_tag]

\* The tags of the first n writers of the table whose is_present holds.
PresentTags(n) ==
    LET Present(writer) == is_present(writer, dynamic_inputs)
    IN  DynamicTags([k \in 1..Len(SelectSeq(SubSeq(EPILOGUE_DYNAMIC_ENTRY_WRITERS, 1, n),
                                            Present)) |->
                        [d_tag |-> SelectSeq(SubSeq(EPILOGUE_DYNAMIC_ENTRY_WRITERS, 1, n),
                                             Present)[k].tag]])

\* The DT_RUNPATH entries of the first n rpaths and, if asked for, DT_SONAME.
LeadingTags(n, with_soname) ==
    [k \in 1..n |-> "DT_RUNPATH"]
        \o (IF with_soname /\ dynamic_inputs.args.soname # <<>>
            THEN <<"DT_SONAME">> ELSE <<>>)

\* C22: at every point of write_epilogue_dynamic_entries that has written no
\* error, the .dynamic cursor holds one DT_RUNPATH per rpath passed, then
\* DT_SONAME if a soname is set and passed, then, in the order of the static
\* table, exactly the entries of the writers passed whose is_present holds;
\* an error leaves the entries written so far; and when the function returns
\* Ok, DT_NULL is the last entry and occurs once.
C22_TableOrderNullLast ==
    LET d == dynamic_out
        tags == DynamicTags(d.entries)
        passed == IF d.result \in {"none", "Ok"} THEN d.writer ELSE d.writer - 1
    IN  /\ dynamic_pc \in {"call", "skipped"} => d.entries = <<>>
        /\ dynamic_pc = "rpaths" => tags = LeadingTags(d.rpath, FALSE)
        /\ dynamic_pc = "writers" =>
                tags = LeadingTags(d.rpath, TRUE) \o PresentTags(d.writer)
        /\ (dynamic_pc \in {"returned", "panicked"} /\ d.writer > 0) =>
                tags = LeadingTags(d.rpath, TRUE) \o PresentTags(passed)
        /\ (dynamic_pc \in {"returned", "panicked"} /\ d.writer = 0) =>
                \E k \in 0..d.rpath :
                    tags \in {LeadingTags(k, FALSE), LeadingTags(k, TRUE)}
        /\ (dynamic_pc = "returned" /\ d.result = "Ok") =>
                /\ d.writer = NUM_EPILOGUE_DYNAMIC_ENTRIES
                /\ d.rpath = Len(dynamic_inputs.args.rpaths)
                /\ tags[Len(tags)] = "DT_NULL"
                /\ \A k \in 1..(Len(tags) - 1) : tags[k] # "DT_NULL"
                /\ \A k \in 1..NUM_EPILOGUE_DYNAMIC_ENTRIES :
                    LET writer == EPILOGUE_DYNAMIC_ENTRY_WRITERS[k]
                    IN  is_present(writer, dynamic_inputs)
                            <=> \E j \in (Len(LeadingTags(d.rpath, TRUE)) + 1)..Len(tags) :
                                    /\ tags[j] = writer.tag
                                    /\ d.entries[j].d_val
                                           = entry_value(writer, dynamic_inputs)

\* An Ok return with rpaths and a soname in front, with optional entries of
\* the table written (DT_INIT, DT_JMPREL) and others left out (DT_VERDEF,
\* DT_DEBUG), so with fewer entries than slots.
C22_Witness ==
    LET tags == DynamicTags(dynamic_out.entries)
        Has(tag) == \E k \in 1..Len(tags) : tags[k] = tag
    IN  /\ dynamic_pc = "returned"
        /\ dynamic_out.result = "Ok"
        /\ Len(dynamic_inputs.args.rpaths) >= 2
        /\ Has("DT_SONAME") /\ Has("DT_INIT") /\ Has("DT_JMPREL")
        /\ ~Has("DT_VERDEF") /\ ~Has("DT_DEBUG")
        /\ dynamic_out.out > 0

====
